---- MODULE Spec2Model ----
(***************************************************************************)
(* Model of the spread probability calculator (src/lib/calculator.js and   *)
(* the App driver), as a state machine over one SpreadCalculator instance. *)
(*                                                                         *)
(* Units.  Prices are integers counting 0.0025 (half a default tick), so   *)
(* the default tickSize 0.005 is 2.  Timestamps are integers counting      *)
(* quarter days (6 h) since the epoch, UTC.  Real-valued results are kept  *)
(* as exact rationals [num, den]; a square root is carried by its square.  *)
(* JavaScript null is Null (the empty tuple) and a present nullable value  *)
(* v is Some(v); NaN and +Infinity are the tagged values NaN and PosInf.   *)
(***************************************************************************)
EXTENDS Integers, Sequences, FiniteSets, TLC

VARIABLES
    config,     \* this.config: the fields the modelled instances differ in
    data1,      \* the caller's leg-1 array (loadAndMerge sorts it in place)
    data2,      \* the caller's leg-2 array
    loaded,     \* this.df !== null
    df,         \* this.df: the merged rows, row i at df[i+1]
    dfRaw,      \* this.dfRaw: the rowIds of the rows it references, in order
    dfValid,    \* this.dfValid: likewise
    results,    \* this.results: a record of the sections written so far
    ret,        \* the last method call and what it returned: [op, args, val]
    prevRet,    \* the call before it, as a caller that kept its result holds it
    rng,        \* internal counter of the generator left by the last bootstrap
    mode,       \* "app": passes in App.handleFilesSelected order; "free": any
    step,       \* number of passes run since loadAndMerge (mode "app")
    calls,      \* number of method calls made (mode "free")
    wilsonArgs, \* <<successes, trials>> of a direct wilsonCI call (SpecWilson)
    app,        \* the state of the App component: results, tickDistribution,
                \* isLoading, loadingProgress, error (SpecApp)
    pending     \* the files of the handleFilesSelected run awaiting their text

vars == <<config, data1, data2, loaded, df, dfRaw, dfValid, results, ret, prevRet, rng, mode,
          step, calls, wilsonArgs, app, pending>>

(***************************************************************************)
(* DEFAULT_CONFIG                                                          *)
(***************************************************************************)
tickSize == 2
tickLevels == <<1, 2, 3>>
outlierMadThreshold == 4
minOutlierTicks == 10
maxDaysGap == 3
strictDailyOnly == FALSE
minExpandingWindow == 20
minConditionalSamples == 2
swingWindow == 5
topNLevels == 2
srMinDistanceTicks == 4
srLookbackDays == 60
bootstrapIterations == 2

(***************************************************************************)
(* Bounds of the inputs                                                    *)
(***************************************************************************)
MaxBars == 4        \* longest generated aligned series
MaxLong == 11       \* length of the generated long series
SmallWindow == 2    \* the minExpandingWindow of the instances with a short warm-up
MaxRaw == 2         \* longest generated unordered leg
MaxCalls == 3       \* method calls made by a free caller
MaxReloads == 1     \* loadAndMerge calls on an instance that has been through a run
GateRows == 63      \* length of the series that reaches the 60-row gate

\* the longest merged series of the generated inputs; the intervals of its
\* counts are tabulated
MaxRows == IF MaxBars >= MaxLong THEN MaxBars ELSE MaxLong

\* 24 * 60 * 60 * 1000 ms, in quarter days
msPerDay == 4

(***************************************************************************)
(* Numbers                                                                 *)
(***************************************************************************)
\* v under the name of F's parameter: a local constant, computed once
Let(v, F(_)) == F(v)

Null == <<>>
Some(v) == <<v>>
Val(o) == o[1]

Abs(x) == IF x < 0 THEN -x ELSE x
Max2(a, b) == IF a >= b THEN a ELSE b
Min2(a, b) == IF a <= b THEN a ELSE b

\* Math.round(num / den) for den > 0: the nearest integer, halves toward +infinity
MathRound(num, den) == (2 * num + den) \div (2 * den)

RECURSIVE GCD(_, _)
GCD(a, b) == IF b = 0 THEN a ELSE GCD(b, a % b)

\* the rational num/den (den # 0) in lowest terms with a positive denominator
Rat(num, den) ==
    LET s == IF den < 0 THEN -1 ELSE 1
        g == GCD(Abs(num), Abs(den))
    IN  IF g = 0 THEN [num |-> 0, den |-> 1]
        ELSE [num |-> s * (num \div g), den |-> Abs(den) \div g]

RInt(n) == [num |-> n, den |-> 1]
RNeg(a) == [num |-> -a.num, den |-> a.den]
RAdd(a, b) ==
    LET g == GCD(a.den, b.den)
    IN  Rat(a.num * (b.den \div g) + b.num * (a.den \div g), (a.den \div g) * b.den)
RSub(a, b) == RAdd(a, RNeg(b))
RMul(a, b) ==
    LET g1 == GCD(Abs(a.num), b.den)
        g2 == GCD(Abs(b.num), a.den)
    IN  IF a.num = 0 \/ b.num = 0 THEN [num |-> 0, den |-> 1]
        ELSE [num |-> (a.num \div g1) * (b.num \div g2),
              den |-> (a.den \div g2) * (b.den \div g1)]
RInv(a) == IF a.num < 0 THEN [num |-> -a.den, den |-> -a.num] ELSE [num |-> a.den, den |-> a.num]
RDiv(a, b) == RMul(a, RInv(b))
\* a <= b, by continued fractions (no cross product is formed)
RECURSIVE RLeq(_, _)
RLeq(a, b) ==
    LET qa == a.num \div a.den
        qb == b.num \div b.den
        ra == a.num % a.den
        rb == b.num % b.den
    IN  IF qa # qb THEN qa < qb
        ELSE IF ra = 0 THEN TRUE
        ELSE IF rb = 0 THEN FALSE
        ELSE RLeq([num |-> b.den, den |-> rb], [num |-> a.den, den |-> ra])
RLt(a, b) == ~RLeq(b, a)
RAbs(a) == [num |-> Abs(a.num), den |-> a.den]
RMax(a, b) == IF RLeq(b, a) THEN a ELSE b
RMin(a, b) == IF RLeq(a, b) THEN a ELSE b
RZero == RInt(0)
ROne == RInt(1)

\* the same sequence, with its elements computed once
Tup(s) == s \o <<>>

(***************************************************************************)
(* Natural numbers of any size                                             *)
(***************************************************************************)
\* A natural number is the sequence of its digits in base Limb, least
\* significant first, without leading zeros (0 is <<>>)
LimbBits == 14
Limb == 2 ^ LimbBits

RECURSIVE BNorm(_)
\* a without its leading zero digits
BNorm(a) ==
    IF a = <<>> THEN a
    ELSE IF a[Len(a)] = 0 THEN BNorm(SubSeq(a, 1, Len(a) - 1))
    ELSE a

RECURSIVE BAdd(_, _, _)
\* a + b + carry
BAdd(a, b, carry) ==
    IF a = <<>> /\ b = <<>> THEN (IF carry = 0 THEN <<>> ELSE <<carry>>)
    ELSE LET x == (IF a = <<>> THEN 0 ELSE a[1]) + (IF b = <<>> THEN 0 ELSE b[1]) + carry
         IN  <<x % Limb>> \o BAdd(IF a = <<>> THEN a ELSE Tail(a),
                                  IF b = <<>> THEN b ELSE Tail(b), x \div Limb)

RECURSIVE BSubDigits(_, _, _)
\* the digits of a - b - borrow, for a >= b + borrow
BSubDigits(a, b, borrow) ==
    IF a = <<>> THEN <<>>
    ELSE LET x == a[1] - (IF b = <<>> THEN 0 ELSE b[1]) - borrow
         IN  <<x % Limb>> \o BSubDigits(Tail(a), IF b = <<>> THEN b ELSE Tail(b),
                                        IF x < 0 THEN 1 ELSE 0)
\* a - b, for a >= b
BSub(a, b) == BNorm(BSubDigits(a, b, 0))

RECURSIVE BLeq(_, _)
\* a <= b
BLeq(a, b) ==
    IF Len(a) # Len(b) THEN Len(a) < Len(b)
    ELSE IF a = <<>> THEN TRUE
    ELSE IF a[Len(a)] # b[Len(b)] THEN a[Len(a)] < b[Len(b)]
    ELSE BLeq(SubSeq(a, 1, Len(a) - 1), SubSeq(b, 1, Len(b) - 1))

RECURSIVE BScale(_, _, _)
\* a * k + carry, for a digit k > 0
BScale(a, k, carry) ==
    IF a = <<>> THEN (IF carry = 0 THEN <<>> ELSE <<carry>>)
    ELSE LET x == a[1] * k + carry
         IN  <<x % Limb>> \o BScale(Tail(a), k, x \div Limb)

RECURSIVE Column(_, _, _, _)
\* the sum of the products a[j] * b[k + 1 - j] of digits, for j from i up
Column(a, b, k, i) ==
    IF i > Len(a) \/ i > k THEN 0
    ELSE (IF k + 1 - i <= Len(b) THEN a[i] * b[k + 1 - i] ELSE 0) + Column(a, b, k, i + 1)

\* a * b, for a and b of at most four digits: the columns of the long
\* multiplication, then the carries
BMul(a, b) == BAdd(Tup([k \in 1..(Len(a) + Len(b) - 1) |-> Column(a, b, k, 1)]), <<>>, 0)

\* a * 2^k, for a > 0
BShl(a, k) == [i \in 1..(k \div LimbBits) |-> 0] \o BScale(a, 2 ^ (k % LimbBits), 0)

\* floor(a / 2^k)
BShr(a, k) ==
    LET q == k \div LimbBits
        r == k % LimbBits
        n == Len(a) - q
    IN  IF n <= 0 THEN <<>>
        ELSE BNorm(Tup([i \in 1..n |->
                 (a[q + i] \div (2 ^ r))
                 + (IF i < n THEN (a[q + i + 1] % (2 ^ r)) * (2 ^ (LimbBits - r)) ELSE 0)]))

\* the number of binary digits of a > 0
BitLen(a) ==
    LimbBits * (Len(a) - 1)
    + (CHOOSE b \in 1..LimbBits : 2 ^ (b - 1) <= a[Len(a)] /\ a[Len(a)] < 2 ^ b)

\* the digits of an integer 0 <= n < 2^31
BNat(n) == BNorm(<<n % Limb, (n \div Limb) % Limb, n \div (Limb * Limb)>>)

\* b <= r * r for rationals b >= 0 and r >= 0; the cross products exceed 32 bits
RLeqSquare(b, r) ==
    BLeq(BMul(BMul(BNat(b.num), BNat(r.den)), BNat(r.den)),
         BMul(BMul(BNat(b.den), BNat(r.num)), BNat(r.num)))
\* r * r <= b
RSquareLeq(r, b) ==
    BLeq(BMul(BMul(BNat(b.den), BNat(r.num)), BNat(r.num)),
         BMul(BMul(BNat(b.num), BNat(r.den)), BNat(r.den)))

\* a + c * sqrt(b), with a, c, b rational and b > 0: the value of an expression
\* with one Math.sqrt in it
Surd(a, c, b) == [a |-> a, c |-> c, b |-> b]
IsSurd(v) == DOMAIN v = {"a", "c", "b"}
\* a + c * sqrt(b) <= q
SurdLeq(x, q) ==
    Let(RSub(q, x.a), LAMBDA d :
    Let(IF x.c.num = 0 THEN RZero ELSE RDiv(d, x.c), LAMBDA r :
        IF x.c.num = 0 THEN d.num >= 0
        ELSE IF x.c.num > 0 THEN d.num >= 0 /\ RLeqSquare(x.b, r)
        ELSE d.num >= 0 \/ RSquareLeq(r, x.b)))
\* a + c * sqrt(b) >= q
SurdGeq(x, q) == SurdLeq(Surd(RNeg(x.a), RNeg(x.c), x.b), RNeg(q))
\* x <= q and x >= q for a rational or surd x and a rational q
LeqRat(x, q) == IF IsSurd(x) THEN SurdLeq(x, q) ELSE RLeq(x, q)
GeqRat(x, q) == IF IsSurd(x) THEN SurdGeq(x, q) ELSE RLeq(q, x)
\* Math.max(0, x), Math.min(1, x)
MathMax0(x) == IF LeqRat(x, RZero) THEN RZero ELSE x
MathMin1(x) == IF GeqRat(x, ROne) THEN ROne ELSE x

NaN == [nan |-> TRUE]
PosInf == [inf |-> TRUE]
IsNaN(v) == DOMAIN v = {"nan"}
IsRat(v) == DOMAIN v = {"num", "den"}

(***************************************************************************)
(* Sequences                                                               *)
(***************************************************************************)
Range(s) == {s[i] : i \in DOMAIN s}

\* the same function, with its values computed once
Fcn(f) == f @@ <<>>

RECURSIVE SumSeq(_)
\* the sum of a sequence of integers, by halves
SumSeq(s) ==
    IF s = <<>> THEN 0
    ELSE IF Len(s) = 1 THEN s[1]
    ELSE SumSeq(SubSeq(s, 1, Len(s) \div 2)) + SumSeq(SubSeq(s, Len(s) \div 2 + 1, Len(s)))

\* The stable order of 1..Len(keys) by ascending key: the permutation that
\* Array.prototype.sort((a, b) => key(a) - key(b)) applies (stable sort).
\* Element i comes after the elements with a smaller key and the earlier
\* elements with the same key.
StableOrder(keys) ==
    LET rank == Tup([i \in DOMAIN keys |->
                    1 + Cardinality({j \in DOMAIN keys :
                                       keys[j] < keys[i] \/ (keys[j] = keys[i] /\ j < i)})])
    IN  Tup([k \in DOMAIN keys |-> CHOOSE i \in DOMAIN keys : rank[i] = k])

\* s sorted (stably) by the keys, keys[i] being the key of s[i]
SortBy(s, keys) == LET o == StableOrder(keys) IN Tup([k \in DOMAIN s |-> s[o[k]]])

\* arr.sort((a, b) => a - b) on numbers
SortNum(s) == LET t == Tup(s) IN SortBy(t, t)

Undefined == [undefined |-> TRUE]

\* obj[key] = val
Put(obj, key, val) == [k \in DOMAIN obj \cup {key} |-> IF k = key THEN val ELSE obj[k]]

\* ToNumber of a nullable number: null coerces to 0 in arithmetic and comparisons
Num(o) == IF o = Null THEN 0 ELSE Val(o)

(***************************************************************************)
(* jStat primitives, on sequences of integers                              *)
(***************************************************************************)
SumSq(s) == SumSeq(Tup([i \in DOMAIN s |-> s[i] * s[i]]))

\* jStat.mean(arr) = sum / length
jStatMean(arr) == IF Len(arr) = 0 THEN NaN ELSE Rat(SumSeq(arr), Len(arr))

\* jStat.variance(arr, true) = sumsqerr(arr) / (length - 1); 0/0 is NaN
jStatVariance(arr) ==
    LET n == Len(arr)
    IN  IF n <= 1 THEN NaN
        ELSE Rat(n * SumSq(arr) - SumSeq(arr) * SumSeq(arr), n * (n - 1))

\* Math.sqrt of a rational or NaN: exact 0 stays 0, the rest is kept symbolic
Sqrt(v) == IF IsNaN(v) THEN NaN ELSE IF v.num = 0 THEN RZero ELSE [sqrt |-> v]

\* jStat.stdev(arr, true) = Math.sqrt(jStat.variance(arr, true))
jStatStdev(arr) == Sqrt(jStatVariance(arr))

\* Math.max(...s) and Math.min(...s) of a non-empty sequence of integers
MaxSeq(s) == CHOOSE m \in Range(s) : \A x \in Range(s) : x <= m
MinSeq(s) == CHOOSE m \in Range(s) : \A x \in Range(s) : m <= x

(***************************************************************************)
(* Helpers of calculator.js                                                *)
(***************************************************************************)
\* date.toISOString().split('T')[0]: the UTC calendar day, as a day number
getDateKey(date) == date \div msPerDay

daysBetween(d1, d2) == MathRound(d2 - d1, msPerDay)

\* jStat.normal.inv(1 - (1 - 0.95) / 2, 0, 1) = 1.95996..., to two decimals
zScore == Rat(196, 100)

\* wilsonCI(successes, trials) at the default confidence 0.95
wilsonCI(successes, trials) ==
    IF trials = 0 THEN <<RZero, RZero>>
    ELSE Let(Rat(successes, trials), LAMBDA p :
         Let(RMul(zScore, zScore), LAMBDA zz :
         Let(RAdd(ROne, RDiv(zz, RInt(trials))), LAMBDA denom :
         Let(RDiv(RAdd(p, RDiv(zz, RInt(2 * trials))), denom), LAMBDA center :
         \* margin = (z / denom) * Math.sqrt(radicand)
         Let(RAdd(RDiv(RMul(p, RSub(ROne, p)), RInt(trials)),
                  RDiv(zz, RInt(4 * trials * trials))), LAMBDA radicand :
         Let(RDiv(zScore, denom), LAMBDA coef :
             <<MathMax0(Surd(center, RNeg(coef), radicand)),
               MathMin1(Surd(center, coef, radicand))>>))))))

\* the intervals of every count the inputs give rise to, computed once
WilsonMemo ==
    Tup([t \in 1..(MaxRows + 1) |-> Tup([k \in 1..t |-> wilsonCI(k - 1, t - 1)])])
wilson(successes, trials) ==
    IF trials <= MaxRows THEN WilsonMemo[trials + 1][successes + 1]
    ELSE wilsonCI(successes, trials)

\* the middle of a sorted array of integers, as the code's median step computes it
MiddleOf(sorted) ==
    LET n == Len(sorted)
        mid == n \div 2
    IN  IF n % 2 = 1 THEN RInt(sorted[mid + 1])
        ELSE Rat(sorted[mid] + sorted[mid + 1], 2)

\* expandingMedian(arr, minPeriods), arr a sequence of nullable integers.
\* isNaN(null) is false, so the filter keeps the null of the first row, and the
\* comparator and the average coerce it to 0.
expandingMedian(arr, minPeriods) ==
    Tup([k \in DOMAIN arr |->
        IF k < minPeriods THEN NaN
        ELSE LET window == Tup([j \in 1..k |-> Num(arr[j])])
             IN  IF Len(window) >= minPeriods THEN MiddleOf(SortNum(window)) ELSE NaN])

\* rollingMAD of loadAndMerge; the window drops the null values
rollingMADOf(tickMoves, rollingMedian, minPeriods) ==
    Tup([k \in DOMAIN tickMoves |->
        IF k < minPeriods THEN NaN
        ELSE LET window == SelectSeq(SubSeq(tickMoves, 1, k), LAMBDA v : v # Null)
             IN  IF Len(window) >= minPeriods
                 THEN LET med == rollingMedian[k]
                          \* |v - med| * med.den is an integer (med.den is 1 or 2)
                          dev == Tup([j \in DOMAIN window |->
                                        Abs(Val(window[j]) * med.den - med.num)])
                          mad == RDiv(MiddleOf(SortNum(dev)), RInt(med.den))
                      IN  RMul(mad, Rat(14826, 10000))
                 ELSE NaN])

\* the keys of the Map built by dedup, in insertion order: a key is inserted by
\* the first row that carries it
DateKeysOf(data) ==
    LET key == Tup([i \in DOMAIN data |-> getDateKey(data[i].datetime)])
        first == SelectSeq(Tup([i \in DOMAIN data |-> i]),
                           LAMBDA i : \A j \in 1..(i - 1) : key[j] # key[i])
    IN  Tup([k \in DOMAIN first |-> key[first[k]]])

\* dedup with the first row set under a key kept
dedupFirstWins(data) ==
    LET keys == DateKeysOf(data)
        first(key) == CHOOSE i \in DOMAIN data :
                        /\ getDateKey(data[i].datetime) = key
                        /\ \A j \in DOMAIN data :
                              getDateKey(data[j].datetime) = key => i <= j
    IN  Tup([k \in DOMAIN keys |->
            [datetime |-> data[first(keys[k])].datetime,
             close |-> data[first(keys[k])].close,
             volume |-> data[first(keys[k])].volume,
             dateKey |-> keys[k]]])

\* dedup(data): one row per date key, the last row set under the key wins
dedup(data) ==
    LET keys == DateKeysOf(data)
        last(key) == CHOOSE i \in DOMAIN data :
                        /\ getDateKey(data[i].datetime) = key
                        /\ \A j \in DOMAIN data :
                              getDateKey(data[j].datetime) = key => j <= i
    IN  Tup([k \in DOMAIN keys |->
            [datetime |-> data[last(keys[k])].datetime,
             close |-> data[last(keys[k])].close,
             volume |-> data[last(keys[k])].volume,
             dateKey |-> keys[k]]])

\* data.sort((a, b) => a.datetime - b.datetime)
SortByDatetime(data) == SortBy(data, Tup([i \in DOMAIN data |-> data[i].datetime]))

\* df1.forEach(row1 => { row2 = df2Map.get(row1.dateKey); if (row2) merged.push(...) })
MergeOn(df1, df2) ==
    LET hit(row1) == {j \in DOMAIN df2 : df2[j].dateKey = row1.dateKey}
        matched == SelectSeq(df1, LAMBDA row1 : hit(row1) # {})
    IN  Tup([k \in DOMAIN matched |->
            LET row1 == matched[k]
                row2 == df2[CHOOSE j \in hit(row1) : TRUE]
            IN  [datetime |-> row1.datetime, dateKey |-> row1.dateKey,
                 close1 |-> row1.close, close2 |-> row2.close,
                 volume1 |-> row1.volume, volume2 |-> row2.volume]])

maxGap == IF strictDailyOnly THEN maxDaysGap ELSE maxDaysGap + 2

\* tickMoveOf truncating toward zero instead of rounding
tickMoveTruncated(priceChange) ==
    IF priceChange >= 0 THEN priceChange \div tickSize ELSE -((-priceChange) \div tickSize)

\* Math.round(row.priceChange / tickSize)
tickMoveOf(priceChange) == MathRound(priceChange, tickSize)

\* the rows of loadAndMerge before the outlier pass
MergedRows(d1, d2) ==
    LET merged == SortByDatetime(MergeOn(dedup(SortByDatetime(d1)), dedup(SortByDatetime(d2))))
        spreadClose(i) == merged[i].close1 - merged[i].close2
        priceChange(i) == spreadClose(i) - spreadClose(i - 1)
        tickMove(i) == tickMoveOf(priceChange(i))
        daysGap(i) == daysBetween(merged[i - 1].datetime, merged[i].datetime)
    IN  Tup([i \in DOMAIN merged |->
            [rowId |-> i - 1,
             datetime |-> merged[i].datetime,
             dateKey |-> merged[i].dateKey,
             close1 |-> merged[i].close1,
             close2 |-> merged[i].close2,
             volume1 |-> merged[i].volume1,
             volume2 |-> merged[i].volume2,
             spreadClose |-> spreadClose(i),
             spreadVolume |-> Min2(merged[i].volume1, merged[i].volume2),
             priceChange |-> IF i > 1 THEN Some(priceChange(i)) ELSE Null,
             tickMove |-> IF i > 1 THEN Some(tickMove(i)) ELSE Null,
             absTickMove |-> IF i > 1 THEN Some(Abs(tickMove(i))) ELSE Null,
             daysGap |-> IF i > 1 THEN Some(daysGap(i)) ELSE Null,
             isConsecutive |-> IF i = 1 THEN TRUE ELSE daysGap(i) <= maxGap]])

\* rollingMAD[idx] || minOutlierTicks: a MAD of 0 is falsy
MadOrFloor(mad) == IF mad.num = 0 THEN RInt(minOutlierTicks) ELSE mad

\* the "Mark outliers and warm-up" pass over the rows
MarkOutliers(rows) ==
    LET tickMoves == Tup([i \in DOMAIN rows |-> rows[i].tickMove])
        minPeriods == config.minExpandingWindow
        rollingMedian == expandingMedian(tickMoves, minPeriods)
        rollingMAD == rollingMADOf(tickMoves, rollingMedian, minPeriods)
        isWarmup(i) == IsNaN(rollingMedian[i]) \/ IsNaN(rollingMAD[i])
        threshold(i) == RMul(RInt(outlierMadThreshold),
                             RMax(MadOrFloor(rollingMAD[i]), RInt(minOutlierTicks)))
        isOutlier(i) ==
            IF isWarmup(i) \/ rows[i].tickMove = Null THEN FALSE
            ELSE RLt(threshold(i), RAbs(RSub(RInt(Val(rows[i].tickMove)), rollingMedian[i])))
    IN  Tup([i \in DOMAIN rows |->
            Fcn([f \in DOMAIN rows[i] \cup {"isWarmup", "isOutlier"} |->
                IF f = "isWarmup" THEN isWarmup(i)
                ELSE IF f = "isOutlier" THEN isOutlier(i)
                ELSE rows[i][f]])])

\* merged.filter(keep).map(r => r.rowId): the rows an array references
RowIdsWhere(rows, keep(_)) ==
    LET kept == SelectSeq(rows, keep) IN Tup([k \in DOMAIN kept |-> kept[k].rowId])

Row(rowId) == df[rowId + 1]

\* SpreadStatsOf without the guard against an empty merged array
SpreadStatsUnguarded(merged) ==
    LET spreadCloses == Tup([i \in DOMAIN merged |-> merged[i].spreadClose])
    IN  [mean |-> jStatMean(spreadCloses),
         std |-> jStatStdev(spreadCloses),
         min |-> IF Len(spreadCloses) > 0 THEN RInt(MinSeq(spreadCloses)) ELSE PosInf,
         max |-> IF Len(spreadCloses) > 0 THEN RInt(MaxSeq(spreadCloses)) ELSE NaN]

\* spreadStats of loadAndMerge
SpreadStatsOf(merged) ==
    LET spreadCloses == Tup([i \in DOMAIN merged |-> merged[i].spreadClose])
    IN  IF Len(spreadCloses) > 0
        THEN [mean |-> jStatMean(spreadCloses),
              std |-> jStatStdev(spreadCloses),
              min |-> RInt(MinSeq(spreadCloses)),
              max |-> RInt(MaxSeq(spreadCloses))]
        ELSE [mean |-> RZero, std |-> RZero, min |-> RZero, max |-> RZero]

\* the metadata loadAndMerge stores into this.results
LoadResults(res, merged, raw, valid) ==
    LET n == Len(merged)
        r1 == Put(res, "nValid", Len(valid))
        r2 == Put(r1, "nRaw", Len(raw))
        r3 == Put(r2, "nOutliers", Len(SelectSeq(merged, LAMBDA r : r.isOutlier)))
        r4 == Put(r3, "nWarmup", Len(SelectSeq(merged, LAMBDA r : r.isWarmup)))
        r5 == Put(r4, "totalVolume", SumSeq([i \in DOMAIN merged |-> merged[i].spreadVolume]))
        r6 == Put(r5, "dateRange",
                  [start |-> IF n > 0 THEN Some(merged[1].datetime) ELSE Undefined,
                   end |-> IF n > 0 THEN Some(merged[n].datetime) ELSE Undefined])
        r7 == Put(r6, "currentPrice", IF n > 0 THEN Some(merged[n].spreadClose) ELSE Undefined)
    IN  Put(r7, "spreadStats", SpreadStatsOf(merged))

InRaw(r) == r.isConsecutive /\ r.tickMove # Null
\* InValid without the outlier test, and without the warm-up test
InValidKeepsOutliers(r) == ~r.isWarmup /\ r.isConsecutive /\ r.tickMove # Null
InValidKeepsWarmup(r) == ~r.isOutlier /\ r.isConsecutive /\ r.tickMove # Null
InValid(r) == ~r.isOutlier /\ ~r.isWarmup /\ r.isConsecutive /\ r.tickMove # Null

(***************************************************************************)
(* Inputs                                                                  *)
(***************************************************************************)

Bar(t, c, v) == [datetime |-> t, close |-> c, volume |-> v]

\* spread closes of the generated series: 1.000, 1.005, 1.0125, 1.250
Prices == {400, 402, 405, 500}
Leg2Close == 100

SeqsUpTo(S, n) == UNION {[1..k -> S] : k \in 0..n}

\* two aligned legs with the given spread closes, bar i at midnight UTC of days[i]
AlignedAt(closes, days) ==
    <<[i \in DOMAIN closes |-> Bar(msPerDay * days[i], closes[i] + Leg2Close, 5)],
      [i \in DOMAIN closes |-> Bar(msPerDay * days[i], Leg2Close, (2 * i) % 3)]>>

\* two aligned daily legs
Aligned(closes) == AlignedAt(closes, [i \in DOMAIN closes |-> i])

\* a series whose last bar comes after a gap longer than maxDaysGap + 2
GapSeries == AlignedAt(<<400, 402, 400, 404>>, <<1, 2, 3, 20>>)

\* a rise of a tick per bar, with a gap longer than maxDaysGap + 2 before the
\* fourth bar
GapRise == AlignedAt(<<400, 402, 404, 406, 408, 410>>, <<1, 2, 3, 20, 21, 22>>)

\* four daily bars: a tick up on volume 1, a tick down on volume 2, a flat bar
\* on volume 2
FifthsOfVolume ==
    <<[i \in 1..4 |-> Bar(msPerDay * i, <<500, 502, 500, 500>>[i], 5)],
      [i \in 1..4 |-> Bar(msPerDay * i, Leg2Close, <<1, 1, 2, 2>>[i])]>>

\* three daily bars, the first leg without volume
NoVolume ==
    <<[i \in 1..3 |-> Bar(msPerDay * i, 500 + 2 * i, 0)],
      [i \in 1..3 |-> Bar(msPerDay * i, Leg2Close, 3)]>>

\* the scenario of the spec: closes 1.00, 1.01, 1.00, 1.02, 1.00
ScenarioCloses == <<400, 404, 400, 408, 400>>

\* long daily series: flat; flat but for one bar a tick higher; a lasting jump;
\* a slow rise of half a tick per bar; and a rise of a tick every other bar
\* with one bar 48 ticks off; and runs of rises and falls of a tick, some
\* ended by a flat bar, some by a turn
RunCloses == <<400, 402, 404, 406, 406, 408, 406, 406, 404, 402, 404>>
LongCloses ==
    {[i \in 1..MaxLong |-> 400],
     [i \in 1..MaxLong |-> IF i = 6 THEN 402 ELSE 400],
     [i \in 1..MaxLong |-> IF i >= 8 THEN 500 ELSE 400],
     [i \in 1..MaxLong |-> 400 + i],
     [i \in 1..MaxLong |-> IF i = 5 THEN 500 ELSE 400 + 2 * (i \div 2)],
     [i \in 1..MaxLong |-> RunCloses[((i - 1) % Len(RunCloses)) + 1]]}

\* a series of GateRows business days (Monday to Friday, from Monday 5 January
\* 1970 on) that rises two ticks and falls back every seven bars, with one week
\* without bars
GateCloses == [i \in 1..GateRows |-> <<400, 400, 402, 404, 402, 402, 400>>[(i % 7) + 1]]
GateSeries ==
    AlignedAt(GateCloses,
              [i \in 1..GateRows |->
                  4 + 7 * ((i - 1) \div 5) + ((i - 1) % 5) + (IF i > 45 THEN 7 ELSE 0)])

\* two falls of 50 ticks and one of 2 ticks: spread closes 1.500, 1.250, 1.000,
\* 0.990
FallCloses == <<600, 500, 400, 396>>

SeriesInputs ==
    {Aligned(c) : c \in SeqsUpTo(Prices, MaxBars) \cup {ScenarioCloses, FallCloses}
                                                  \cup LongCloses}
    \cup {GapSeries, GapRise, NoVolume, FifthsOfVolume, GateSeries}

\* legs in arbitrary order, with repeated dates and times of day; a bar's close
\* tells its position in the array
RawTimes1 == {0, 3, 4, 40}
RawTimes2 == {1, 5}
RawLeg(times, base) == [i \in DOMAIN times |-> Bar(times[i], base + 2 * i, i)]
RawInputs ==
    {<<RawLeg(t1, 500), RawLeg(t2, 100)>> :
        t1 \in SeqsUpTo(RawTimes1, MaxRaw), t2 \in SeqsUpTo(RawTimes2, MaxRaw)}

AppInputs == {in \in SeriesInputs \cup RawInputs : Len(in[1]) > 0 /\ Len(in[2]) > 0}
\* for a free caller: empty legs, legs without a shared date, a merge of one
\* row, and two series
FreeInputs ==
    {<<RawLeg(t[1], 500), RawLeg(t[2], 100)>> :
        t \in {<< <<>>, <<>> >>, << <<0>>, <<>> >>, << <<>>, <<1>> >>, << <<0>>, <<5>> >>,
               << <<3>>, <<1>> >>}}
    \cup {Aligned(ScenarioCloses), Aligned(<<400, 402, 405, 402>>)}

\* for a caller that runs a second analysis on one instance: the long series,
\* two short ones, and legs without a shared date
ReuseInputs ==
    {GateSeries, Aligned(ScenarioCloses), Aligned(<<400, 402, 405, 402>>),
     <<RawLeg(<<0>>, 500), RawLeg(<<5>>, 100)>>}

(***************************************************************************)
(* The calculator                                                          *)
(***************************************************************************)
AppOrder ==
    <<"calculateEmpiricalProbabilities", "calculateVolumeWeighted", "calculateBootstrap",
      "calculateConditional", "calculateSupportResistance", "calculateStats",
      "calculateStreaks", "calculateRangeProbabilities", "calculateExpectedValue",
      "calculateWeekdayProbs", "calculateRecentComparison", "getTickDistribution">>

\* the configurations: DEFAULT_CONFIG, and the same with a short warm-up
Configs == {[minExpandingWindow |-> w] : w \in {SmallWindow, minExpandingWindow}}

\* the state of App at its first render
useState ==
    [results |-> Null, tickDistribution |-> Null, isLoading |-> FALSE,
     loadingProgress |-> 0, error |-> Null]

\* new SpreadCalculator(config), with the arrays the caller is about to pass.
\* The caller is App (one load and the passes in its order), a free caller (any
\* calls), or a caller that lets one instance serve several runs of App's
\* sequence.
Init ==
    /\ mode \in {"app", "free", "reuse"}
    /\ config \in (IF mode = "app" THEN Configs
                    ELSE {[minExpandingWindow |-> SmallWindow]})
    /\ \E in \in (IF mode = "app" THEN AppInputs
                  ELSE IF mode = "free" THEN FreeInputs ELSE ReuseInputs) :
          data1 = in[1] /\ data2 = in[2]
    /\ loaded = FALSE
    /\ df = <<>>
    /\ dfRaw = <<>>
    /\ dfValid = <<>>
    /\ results = [x \in {} |-> 0]
    /\ ret = [op |-> "constructor", args |-> <<>>, val |-> Undefined]
    /\ prevRet = [op |-> "none", args |-> <<>>, val |-> Undefined]
    /\ rng = Null
    /\ step = 0
    /\ calls = 0
    /\ wilsonArgs = Null
    /\ app = useState
    /\ pending = Null

\* the caller's turn: App calls loadAndMerge once, a free caller within its
\* budget, a reusing caller again after a complete run
CanLoad ==
    IF mode = "app" THEN ~loaded
    ELSE IF mode = "free" THEN calls < MaxCalls
    ELSE mode = "reuse" /\ (~loaded \/ (step = Len(AppOrder) /\ calls < MaxReloads))
CanCall(op) ==
    /\ loaded
    /\ mode \in {"app", "free", "reuse"}
    /\ IF mode = "free" THEN calls < MaxCalls
       ELSE step < Len(AppOrder) /\ AppOrder[step + 1] = op

Called(op, args, val) ==
    /\ ret' = [op |-> op, args |-> args, val |-> val]
    /\ prevRet' = ret
    /\ IF mode = "free" THEN calls' = calls + 1 /\ step' = step
       ELSE step' = step + 1 /\ calls' = calls
    /\ UNCHANGED <<config, mode, wilsonArgs, app, pending>>

\* loadAndMerge(data1, data2): the arrays are those prepared at construction, or,
\* on an instance that has been through a run, another pair
LoadAndMerge ==
    /\ CanLoad
    /\ \E in \in (IF mode = "reuse" /\ loaded THEN ReuseInputs ELSE {<<data1, data2>>}) :
       \E merged \in {MarkOutliers(MergedRows(in[1], in[2]))} :
       \E raw \in {RowIdsWhere(merged, InRaw)}, valid \in {RowIdsWhere(merged, InValid)} :
           /\ data1' = SortByDatetime(in[1])
           /\ data2' = SortByDatetime(in[2])
           /\ df' = merged
           /\ dfRaw' = raw
           /\ dfValid' = valid
           /\ results' = LoadResults(results, merged, raw, valid)
           /\ ret' = [op |-> "loadAndMerge", args |-> <<>>, val |-> merged]
           /\ prevRet' = ret
    /\ loaded' = TRUE
    /\ step' = 0
    /\ calls' = IF mode = "app" THEN calls
                ELSE IF mode = "reuse" /\ ~loaded THEN calls ELSE calls + 1
    /\ UNCHANGED <<config, rng, mode, wilsonArgs, app, pending>>

(***************************************************************************)
(* Probability engine                                                      *)
(***************************************************************************)
EmptyObj == [x \in {} |-> 0]

\* the rows an array of rowIds references
RowsOf(ids) == Tup([k \in DOMAIN ids |-> Row(ids[k])])

\* the number of elements of arr that pass the test
Count(arr, test(_)) == Len(SelectSeq(arr, test))

LevelSet == Range(tickLevels)

\* countsOf with the sign of the down threshold lost
countsDownSignLost(data, nticks) ==
    [exact |-> Count(data, LAMBDA r : r.absTickMove = Some(nticks)),
     atLeast |-> Count(data, LAMBDA r : Num(r.absTickMove) >= nticks),
     up |-> Count(data, LAMBDA r : Num(r.tickMove) >= nticks),
     down |-> Count(data, LAMBDA r : Num(r.tickMove) <= nticks)]

\* counts[nticks] after the single pass of _computeProbs
countsOf(data, nticks) ==
    [exact |-> Count(data, LAMBDA r : r.absTickMove = Some(nticks)),
     atLeast |-> Count(data, LAMBDA r : Num(r.absTickMove) >= nticks),
     up |-> Count(data, LAMBDA r : Num(r.tickMove) >= nticks),
     down |-> Count(data, LAMBDA r : Num(r.tickMove) <= -nticks)]

\* _computeProbs(data, label)
computeProbs(data, label) ==
    LET n == Len(data)
        zero == Count(data, LAMBDA r : r.tickMove = Some(0))
        exact(nticks) == countsOf(data, nticks).exact
        atLeast(nticks) == countsOf(data, nticks).atLeast
        up(nticks) == countsOf(data, nticks).up
        down(nticks) == countsOf(data, nticks).down
    IN  IF n = 0 THEN [n |-> 0, label |-> label, probs |-> EmptyObj]
        ELSE [n |-> n, label |-> label, probs |->
                Fcn([nticks \in {0} \cup LevelSet |->
                    IF nticks = 0
                    THEN [tickValue |-> 0,
                          countExact |-> zero,
                          probExact |-> Rat(zero, n),
                          probExactCI |-> wilson(zero, n)]
                    ELSE [tickValue |-> nticks * tickSize,
                          countExact |-> exact(nticks),
                          probExact |-> Rat(exact(nticks), n),
                          probExactCI |-> wilson(exact(nticks), n),
                          countAtLeast |-> atLeast(nticks),
                          probAtLeast |-> Rat(atLeast(nticks), n),
                          probAtLeastCI |-> wilson(atLeast(nticks), n),
                          countUp |-> up(nticks),
                          probUpAtLeast |-> Rat(up(nticks), n),
                          probUpCI |-> wilson(up(nticks), n),
                          countDown |-> down(nticks),
                          probDownAtLeast |-> Rat(down(nticks), n),
                          probDownCI |-> wilson(down(nticks), n)]])]

Frame == UNCHANGED <<data1, data2, loaded, df, dfRaw, dfValid, rng>>

CalculateEmpiricalProbabilities ==
    /\ CanCall("calculateEmpiricalProbabilities")
    /\ \E rawResults \in {computeProbs(RowsOf(dfRaw), "Real World (Inc. Spikes)")},
          filteredResults \in {computeProbs(RowsOf(dfValid), "Normal Regime")} :
           /\ results' = Put(Put(Put(results, "empiricalRaw", rawResults),
                                 "empiricalFiltered", filteredResults),
                             "empirical", filteredResults.probs)
           /\ Called("calculateEmpiricalProbabilities", <<>>,
                     [raw |-> rawResults, filtered |-> filteredResults])
    /\ Frame

\* the spreadVolume summed over the rows of raw that pass the test
VolumeWhere(raw, test(_)) ==
    LET kept == SelectSeq(raw, test) IN SumSeq([k \in DOMAIN kept |-> kept[k].spreadVolume])

\* volumeWeighted with the sign of the down threshold lost
volumeDownSignLost(raw) ==
    LET totalVol == VolumeWhere(raw, LAMBDA r : TRUE)
    IN  IF Len(raw) = 0 \/ totalVol = 0 THEN [set |-> FALSE, val |-> EmptyObj]
        ELSE [set |-> TRUE, val |->
                Fcn([nticks \in LevelSet |->
                    [volWeightedAtLeast |->
                        Rat(VolumeWhere(raw, LAMBDA r : Num(r.absTickMove) >= nticks), totalVol),
                     volWeightedUp |->
                        Rat(VolumeWhere(raw, LAMBDA r : Num(r.tickMove) >= nticks), totalVol),
                     volWeightedDown |->
                        Rat(VolumeWhere(raw, LAMBDA r : Num(r.tickMove) <= nticks), totalVol)]])]

\* calculateVolumeWeighted(): the value returned, and whether results.volWeighted is set
volumeWeighted(raw) ==
    LET totalVol == VolumeWhere(raw, LAMBDA r : TRUE)
    IN  IF Len(raw) = 0 \/ totalVol = 0 THEN [set |-> FALSE, val |-> EmptyObj]
        ELSE [set |-> TRUE, val |->
                Fcn([nticks \in LevelSet |->
                    [volWeightedAtLeast |->
                        Rat(VolumeWhere(raw, LAMBDA r : Num(r.absTickMove) >= nticks), totalVol),
                     volWeightedUp |->
                        Rat(VolumeWhere(raw, LAMBDA r : Num(r.tickMove) >= nticks), totalVol),
                     volWeightedDown |->
                        Rat(VolumeWhere(raw, LAMBDA r : Num(r.tickMove) <= -nticks), totalVol)]])]

\* a pass whose outcome is [set, val]: results[section] is written only when set
PassWrites(op, section, out) ==
    /\ results' = IF out.set THEN Put(results, section, out.val) ELSE results
    /\ Called(op, <<>>, out.val)
    /\ Frame

CalculateVolumeWeighted ==
    /\ CanCall("calculateVolumeWeighted")
    /\ PassWrites("calculateVolumeWeighted", "volWeighted", volumeWeighted(RowsOf(dfRaw)))


(***************************************************************************)
(* Resampling engine                                                       *)
(***************************************************************************)
\* A 32-bit word is <<high 16 bits, low 16 bits>>
W16 == 65536
ToWord(n) == <<(n \div W16) % W16, n % W16>>

RECURSIVE Xor16(_, _)
Xor16(a, b) ==
    IF a = 0 THEN b ELSE IF b = 0 THEN a
    ELSE ((a + b) % 2) + 2 * Xor16(a \div 2, b \div 2)
RECURSIVE Or16(_, _)
Or16(a, b) ==
    IF a = 0 THEN b ELSE IF b = 0 THEN a
    ELSE Max2(a % 2, b % 2) + 2 * Or16(a \div 2, b \div 2)

XorW(x, y) == <<Xor16(x[1], y[1]), Xor16(x[2], y[2])>>
\* x | k for a constant k below 2^16
OrLow(x, k) == <<x[1], Or16(x[2], k)>>
\* (x + y) mod 2^32
AddW(x, y) ==
    LET lo == x[2] + y[2]
    IN  <<(x[1] + y[1] + lo \div W16) % W16, lo % W16>>
\* x >>> k for 1 <= k <= 15
ShrW(x, k) ==
    LET v == x[1] * (2 ^ (16 - k)) + x[2] \div (2 ^ k)
    IN  <<v \div W16, v % W16>>
\* the product of two 16-bit numbers, as a word
Mul16(x, y) ==
    LET p1 == x * (y \div 256)
        p0 == x * (y % 256)
        low == (p1 % 256) * 256 + p0
    IN  <<p1 \div 256 + low \div W16, low % W16>>
\* Math.imul(x, y): the low 32 bits of the product
Imul(x, y) ==
    LET ll == Mul16(x[2], y[2])
    IN  <<(ll[1] + Mul16(x[1], y[2])[2] + Mul16(x[2], y[1])[2]) % W16, ll[2]>>

\* seed += 0x6D2B79F5.  The closure keeps seed as an unreduced number; every
\* use converts it with ToInt32, so only its value mod 2^32 is kept here.
Increment == <<27947, 31221>>

\* seededRandom handing out one generator that outlives the call
seededRandomShared(seed) == IF rng = Null THEN ToWord(seed) ELSE rng

\* seededRandom(seed): the closure's initial state
seededRandom(seed) == ToWord(seed)

\* one call of the closure from state w: the new state and the 32-bit numerator
\* of the number returned (the value is numerator / 4294967296)
Mulberry(w) ==
    Let(AddW(w, Increment), LAMBDA t0 :
    Let(Imul(XorW(t0, ShrW(t0, 15)), OrLow(t0, 1)), LAMBDA t1 :
    Let(XorW(t1, AddW(t1, Imul(XorW(t1, ShrW(t1, 7)), OrLow(t1, 61)))), LAMBDA t2 :
        [state |-> t0, out |-> XorW(t2, ShrW(t2, 14))])))

\* Math.floor(rng() * n) for the returned numerator out
DrawIndex(out, n) == (out[1] * n + (out[2] * n) \div W16) \div W16

\* the closure's state d calls after state w: d increments, mod 2^32
AddTimes(w, d) == AddW(w, Imul(ToWord(d), Increment))

\* the numerator returned by the call made d calls after state w
StreamOut(w, d) == Mulberry(AddTimes(w, d)).out

\* pct(arr, p) of calculateBootstrap, arr a sorted sequence of rationals, p = pn/pd
pct(arr, pn, pd) ==
    LET idx == Rat(pn * (Len(arr) - 1), pd)
        lower == idx.num \div idx.den
        upper == IF idx.num % idx.den = 0 THEN lower ELSE lower + 1
    IN  IF lower = upper THEN arr[lower + 1]
        ELSE RAdd(RMul(arr[lower + 1], RSub(RInt(upper), idx)),
                  RMul(arr[upper + 1], RSub(idx, RInt(lower))))

\* jStat.mean of a sequence of rationals
RECURSIVE RSum(_)
RSum(s) == IF s = <<>> THEN RZero ELSE RAdd(s[1], RSum(Tail(s)))
RMean(s) == RDiv(RSum(s), RInt(Len(s)))

DefaultSeed == 42
Seeds == {DefaultSeed, 7}

\* the streams of the seeds in use, computed once
MaxDraws == Len(tickLevels) * (bootstrapIterations + 1) * MaxRows
StreamMemo ==
    Fcn([w \in {ToWord(seed) : seed \in Seeds} |-> Tup([d \in 1..MaxDraws |-> StreamOut(w, d - 1)])])
DrawOut(w, d) ==
    IF w \in DOMAIN StreamMemo /\ d < MaxDraws THEN StreamMemo[w][d + 1] ELSE StreamOut(w, d)

\* bootLevel with the up and the down fraction counted over draws of their own
bootLevelOwnDraws(valid, nticks, nIter, start, first) ==
    LET n == Len(valid)
        drawn(iter, i, shift) ==
            valid[DrawIndex(DrawOut(start, first + iter * n + i + shift), n) + 1]
        count(iter, shift, test(_)) ==
            Cardinality({i \in 0..(n - 1) : test(drawn(iter, i, shift))})
        frac(shift, test(_)) ==
            LET sorted == SortNum([it \in 1..nIter |-> count(it - 1, shift, test)])
            IN  Tup([k \in 1..nIter |-> Rat(sorted[k], n)])
        summary(boot) == [mean |-> RMean(boot), ci |-> <<pct(boot, 25, 1000), pct(boot, 975, 1000)>>]
    IN  [abs |-> summary(frac(0, LAMBDA r : Num(r.absTickMove) >= nticks)),
         up |-> summary(frac(1, LAMBDA r : Num(r.tickMove) >= nticks)),
         down |-> summary(frac(2, LAMBDA r : Num(r.tickMove) <= -nticks))]

\* the fractions of one tick level: nIter resamples of n draws each, the draws
\* of the level starting first calls after the closure state start
bootLevel(valid, nticks, nIter, start, first) ==
    LET n == Len(valid)
        \* the row drawn by draw i (0-based) of iteration iter (0-based)
        drawn(iter, i) ==
            valid[DrawIndex(DrawOut(start, first + iter * n + i), n) + 1]
        count(iter, test(_)) == Cardinality({i \in 0..(n - 1) : test(drawn(iter, i))})
        frac(test(_)) ==
            LET sorted == SortNum([it \in 1..nIter |-> count(it - 1, test)])
            IN  Tup([k \in 1..nIter |-> Rat(sorted[k], n)])
        summary(boot) == [mean |-> RMean(boot), ci |-> <<pct(boot, 25, 1000), pct(boot, 975, 1000)>>]
    IN  [abs |-> summary(frac(LAMBDA r : Num(r.absTickMove) >= nticks)),
         up |-> summary(frac(LAMBDA r : Num(r.tickMove) >= nticks)),
         down |-> summary(frac(LAMBDA r : Num(r.tickMove) <= -nticks))]

\* calculateBootstrap(nIter, seed): [set, val, state], state the closure's last state
bootstrap(valid, nIter, seed) ==
    LET n == Len(valid)
        start == seededRandom(seed)
    IN  IF n = 0 THEN [set |-> FALSE, val |-> EmptyObj, state |-> rng]
        ELSE [set |-> TRUE,
              val |-> Fcn([nticks \in LevelSet |->
                         LET li == CHOOSE k \in DOMAIN tickLevels : tickLevels[k] = nticks
                         IN  bootLevel(valid, nticks, nIter, start, (li - 1) * nIter * n)]),
              state |-> AddTimes(start, Len(tickLevels) * nIter * n)]

\* App calls calculateBootstrap(); a free caller may pass a seed
CalculateBootstrap ==
    /\ CanCall("calculateBootstrap")
    /\ \E seed \in (IF mode = "free" THEN Seeds ELSE {DefaultSeed}) :
          \E out \in {bootstrap(RowsOf(dfValid), bootstrapIterations, seed)} :
              /\ results' = IF out.set THEN Put(results, "bootstrap", out.val) ELSE results
              /\ rng' = out.state
              /\ Called("calculateBootstrap", <<bootstrapIterations, seed>>, out.val)
    /\ UNCHANGED <<data1, data2, loaded, df, dfRaw, dfValid>>

(***************************************************************************)
(* Sequential analyzer: conditional transitions                            *)
(***************************************************************************)
\* transitionsOf pairing the neighbours of the filtered array whatever their rowIds
transitionsByPosition(valid) ==
    Tup([k \in 1..(Len(valid) - 1) |->
        [tickMove |-> valid[k].tickMove, nextTick |-> valid[k + 1].tickMove]])

\* the transitions of calculateConditional: neighbours of valid with adjacent rowIds
transitionsOf(valid) ==
    LET starts == SelectSeq(Tup([i \in 1..(Len(valid) - 1) |-> i]),
                            LAMBDA i : valid[i + 1].rowId - valid[i].rowId = 1)
    IN  Tup([k \in DOMAIN starts |->
            [tickMove |-> valid[starts[k]].tickMove,
             nextTick |-> valid[starts[k] + 1].tickMove]])

\* the three fractions and the mean of one branch; a is the direction continued
branchOf(trans, a) ==
    LET n == Len(trans)
        same == Count(trans, LAMBDA t : Num(t.nextTick) * a > 0)
        opposite == Count(trans, LAMBDA t : Num(t.nextTick) * a < 0)
        unchanged == Count(trans, LAMBDA t : t.nextTick = Some(0))
        avg == jStatMean(Tup([k \in DOMAIN trans |-> Num(trans[k].nextTick)]))
    IN  IF a > 0
        THEN [nSamples |-> n, probContinueUp |-> Rat(same, n),
              probReverseDown |-> Rat(opposite, n), probUnchanged |-> Rat(unchanged, n),
              avgNextMove |-> avg]
        ELSE [nSamples |-> n, probContinueDown |-> Rat(same, n),
              probReverseUp |-> Rat(opposite, n), probUnchanged |-> Rat(unchanged, n),
              avgNextMove |-> avg]

\* conditional reporting both branches whatever their sample counts
conditionalZeroFilled(valid) ==
    LET transitions == transitionsOf(valid)
    IN  [afterUpMove |-> branchOf(SelectSeq(transitions, LAMBDA t : Num(t.tickMove) > 0), 1),
         afterDownMove |-> branchOf(SelectSeq(transitions, LAMBDA t : Num(t.tickMove) < 0), -1)]

\* calculateConditional(): the object stored and returned
conditional(valid) ==
    LET minSamples == minConditionalSamples
        transitions == transitionsOf(valid)
        upTrans == SelectSeq(transitions, LAMBDA t : Num(t.tickMove) > 0)
        downTrans == SelectSeq(transitions, LAMBDA t : Num(t.tickMove) < 0)
        r1 == IF Len(upTrans) >= minSamples
              THEN Put(EmptyObj, "afterUpMove", branchOf(upTrans, 1)) ELSE EmptyObj
    IN  IF Len(downTrans) >= minSamples
        THEN Put(r1, "afterDownMove", branchOf(downTrans, -1)) ELSE r1

CalculateConditional ==
    /\ CanCall("calculateConditional")
    /\ PassWrites("calculateConditional", "conditional",
                  [set |-> TRUE, val |-> conditional(RowsOf(dfValid))])

(***************************************************************************)
(* Level detector: calculateSupportResistance                              *)
(***************************************************************************)
\* Math.round(r.spreadClose / tickSize)
tickIdxOf(r) == MathRound(r.spreadClose, tickSize)

\* the keys of an object whose keys are non-negative integers, in the order
\* Object.entries, Object.values and for-in visit them: ascending
KeysInOrder(S) ==
    Tup([k \in 1..Cardinality(S) |->
        CHOOSE x \in S : Cardinality({y \in S : y < x}) = k - 1])

\* lookbackOf with the levels built from the whole history
lookbackWholeHistory(dfFull) ==
    LET n == Len(dfFull)
        maxDate == dfFull[n].datetime
        cutoffDate == maxDate - srLookbackDays * msPerDay
        recent == SelectSeq(dfFull, LAMBDA r : r.datetime >= cutoffDate)
    IN  IF Len(recent) < 10
        THEN [df |-> dfFull,
              actualLookback |-> IF n > 1 THEN daysBetween(dfFull[1].datetime, maxDate) ELSE 0]
        ELSE [df |-> dfFull, actualLookback |-> srLookbackDays]

\* the rows the levels are built from, and the lookback reported
lookbackOf(dfFull) ==
    LET n == Len(dfFull)
        maxDate == dfFull[n].datetime
        cutoffDate == maxDate - srLookbackDays * msPerDay
        recent == SelectSeq(dfFull, LAMBDA r : r.datetime >= cutoffDate)
    IN  IF Len(recent) < 10
        THEN [df |-> dfFull,
              actualLookback |-> IF n > 1 THEN daysBetween(dfFull[1].datetime, maxDate) ELSE 0]
        ELSE [df |-> recent, actualLookback |-> srLookbackDays]

\* swingsOf storing the tick index under tickMove
swingsOverTickMove(rows) ==
    LET halfWin == swingWindow \div 2
        tick == Tup([i \in DOMAIN rows |-> tickIdxOf(rows[i])])
        ticks(i) == SubSeq(tick, Max2(1, i - halfWin), Min2(Len(rows), i + halfWin))
    IN  Tup([i \in DOMAIN rows |->
            Fcn([f \in DOMAIN rows[i] \cup {"tickIdx", "isSwingHigh", "isSwingLow"} |->
                IF f = "tickIdx" THEN tick[i]
                ELSE IF f = "tickMove" THEN Some(tick[i])
                ELSE IF f = "isSwingHigh" THEN tick[i] = MaxSeq(ticks(i))
                ELSE IF f = "isSwingLow" THEN tick[i] = MinSeq(ticks(i))
                ELSE rows[i][f]])])

\* the rows with tickIdx, isSwingHigh and isSwingLow set (the pass writes them
\* into the row objects, which this.df, this.dfRaw and this.dfValid share)
swingsOf(rows) ==
    LET halfWin == swingWindow \div 2
        tick == Tup([i \in DOMAIN rows |-> tickIdxOf(rows[i])])
        ticks(i) == SubSeq(tick, Max2(1, i - halfWin), Min2(Len(rows), i + halfWin))
    IN  Tup([i \in DOMAIN rows |->
            Fcn([f \in DOMAIN rows[i] \cup {"tickIdx", "isSwingHigh", "isSwingLow"} |->
                IF f = "tickIdx" THEN tick[i]
                ELSE IF f = "isSwingHigh" THEN tick[i] = MaxSeq(ticks(i))
                ELSE IF f = "isSwingLow" THEN tick[i] = MinSeq(ticks(i))
                ELSE rows[i][f]])])

\* calcStrength without the cap at 10
calcStrengthUncapped(level, maxVolume) ==
    LET types == Range(level.types)
        hasVolume == "Volume" \in types
        hasSwing == "Swing High" \in types \/ "Swing Low" \in types
        score == RAdd(RAdd(RInt(Min2(Cardinality(types), 3)
                                + (IF hasVolume /\ hasSwing THEN 3 ELSE 0)),
                           RMul(Rat(level.volume, maxVolume), RInt(3))),
                      RAdd(RMul(RMin(Rat(level.touches, 10), ROne), RInt(2)),
                           RMul(RMin(Rat(level.swingCount, 3), ROne), RInt(2))))
        score10 == RMul(score, RInt(10))
    IN  Rat(MathRound(score10.num, score10.den), 10)

\* Math.min(Math.round(score * 10) / 10, 10), score being
\*   min(types.size, 3) + (3 if Volume and a swing) + (volume / maxVolume) * 3
\*   + min(touches / 10, 1) * 2 + min(swingCount / 3, 1) * 2
calcStrength(level, maxVolume) ==
    LET types == Range(level.types)
        hasVolume == "Volume" \in types
        hasSwing == "Swing High" \in types \/ "Swing Low" \in types
        score == RAdd(RAdd(RInt(Min2(Cardinality(types), 3)
                                + (IF hasVolume /\ hasSwing THEN 3 ELSE 0)),
                           RMul(Rat(level.volume, maxVolume), RInt(3))),
                      RAdd(RMul(RMin(Rat(level.touches, 10), ROne), RInt(2)),
                           RMul(RMin(Rat(level.swingCount, 3), ROne), RInt(2))))
        score10 == RMul(score, RInt(10))
    IN  RMin(Rat(MathRound(score10.num, score10.den), 10), RInt(10))

\* allLevels, as the sequence Object.values(allLevels) visits
allLevelsOf(rows) ==
    LET tickSet == {rows[i].tickIdx : i \in DOMAIN rows}
        touchCounts(t) == Count(rows, LAMBDA r : r.tickIdx = t)
        volumeByTick(t) == VolumeWhere(rows, LAMBDA r : r.tickIdx = t)
        volumeKeys == KeysInOrder(tickSet)
        \* Object.entries(volumeByTick).sort((a, b) => b[1] - a[1]).slice(0, topNLevels * 6)
        byVolume == SortBy(volumeKeys, Tup([k \in DOMAIN volumeKeys |-> -volumeByTick(volumeKeys[k])]))
        topVolumeKeys == Range(SubSeq(byVolume, 1, Min2(Len(byVolume), topNLevels * 6)))
        swingHighCounts(t) == Count(rows, LAMBDA r : r.isSwingHigh /\ r.tickIdx = t)
        swingLowCounts(t) == Count(rows, LAMBDA r : r.isSwingLow /\ r.tickIdx = t)
        keys == KeysInOrder({t \in tickSet :
                    t \in topVolumeKeys \/ swingHighCounts(t) > 0 \/ swingLowCounts(t) > 0})
    IN  Tup([k \in DOMAIN keys |->
            LET t == keys[k]
            IN  [tickIdx |-> t,
                 price |-> t * tickSize,
                 types |-> (IF t \in topVolumeKeys THEN <<"Volume">> ELSE <<>>)
                           \o (IF swingHighCounts(t) > 0 THEN <<"Swing High">> ELSE <<>>)
                           \o (IF swingLowCounts(t) > 0 THEN <<"Swing Low">> ELSE <<>>),
                 volume |-> IF t \in topVolumeKeys THEN volumeByTick(t) ELSE 0,
                 touches |-> touchCounts(t),
                 swingCount |-> swingHighCounts(t) + swingLowCounts(t)]])

\* Math.max(...Object.values(volumeByTick), 1)
maxVolumeOf(rows) ==
    LET tickSet == {rows[i].tickIdx : i \in DOMAIN rows}
        vols == {VolumeWhere(rows, LAMBDA r : r.tickIdx = t) : t \in tickSet} \cup {1}
    IN  CHOOSE v \in vols : \A w \in vols : w <= v

\* the "Process levels" loop
processedOf(levels, maxVolume, currentPrice) ==
    LET kept == SelectSeq(levels, LAMBDA level :
                    MathRound(Abs(level.price - currentPrice), tickSize) # 0)
    IN  Tup([k \in DOMAIN kept |->
            LET level == kept[k]
                dist == Abs(level.price - currentPrice)
            IN  [price |-> level.price,
                 \* Array.from(level.types).sort(): the three tags sort in this order
                 type |-> SelectSeq(<<"Swing High", "Swing Low", "Volume">>,
                                    LAMBDA t : t \in Range(level.types)),
                 types |-> level.types,
                 strength |-> calcStrength(level, maxVolume),
                 touches |-> level.touches,
                 swingCount |-> level.swingCount,
                 volume |-> level.volume,
                 distance |-> dist,
                 distanceTicks |-> MathRound(dist, tickSize),
                 isResistance |-> level.price > currentPrice]])

\* levels.sort((a, b) => b.strength - a.strength || a.distance - b.distance);
\* strength is a number of tenths, so 10 * strength is an integer
SortByStrength(levels) ==
    LET byDistance == SortBy(levels, Tup([k \in DOMAIN levels |-> levels[k].distance]))
    IN  SortBy(byDistance,
               Tup([k \in DOMAIN byDistance |-> -RMul(byDistance[k].strength, RInt(10)).num]))

RECURSIVE acceptAnyDistance(_, _, _)
\* acceptLevels without the distance test
acceptAnyDistance(levels, accepted, maxN) ==
    IF levels = <<>> THEN accepted
    ELSE IF Len(accepted) + 1 >= maxN THEN Append(accepted, levels[1])
    ELSE acceptAnyDistance(Tail(levels), Append(accepted, levels[1]), maxN)

RECURSIVE acceptLevels(_, _, _)
\* the loop of filterLevels over the levels left, accepted being those taken so far
acceptLevels(levels, accepted, maxN) ==
    IF levels = <<>> THEN accepted
    ELSE LET lv == levels[1]
         IN  IF \A k \in DOMAIN accepted :
                    Abs(lv.price - accepted[k].price) >= srMinDistanceTicks * tickSize
             THEN IF Len(accepted) + 1 >= maxN THEN Append(accepted, lv)
                  ELSE acceptLevels(Tail(levels), Append(accepted, lv), maxN)
             ELSE acceptLevels(Tail(levels), accepted, maxN)

\* filterLevels(levels, maxN)
filterLevels(levels, maxN) ==
    LET accepted == acceptLevels(levels, <<>>, maxN)
    IN  SortBy(accepted, Tup([k \in DOMAIN accepted |-> accepted[k].distance]))

RECURSIVE emaFrom(_, _, _, _, _)
\* the smoothing loop of emaCalc over the indices i..(j - 1) (0-based), by halves
emaFrom(data, i, j, k, ema) ==
    IF i >= j THEN ema
    ELSE IF i + 1 = j
         THEN RAdd(RMul(RInt(data[i + 1]), k), RMul(ema, RSub(ROne, k)))
    ELSE LET half == emaFrom(data, i, (i + j) \div 2, k, ema)
         IN  IF half.den > 0 THEN emaFrom(data, (i + j) \div 2, j, k, half) ELSE half

\* emaCalc seeded with the first point alone and smoothed over the others
emaSeededByFirst(data, periods) ==
    IF Len(data) = 0 THEN RZero
    ELSE IF Len(data) = 1 THEN RInt(data[1])
    ELSE emaFrom(data, 1, Len(data), Rat(2, Min2(periods, Len(data)) + 1), RInt(data[1]))

\* emaCalc(data, periods), data a sequence of integers
emaCalc(data, periods) ==
    IF Len(data) = 0 THEN RZero
    ELSE IF Len(data) = 1 THEN RInt(data[1])
    ELSE LET effectivePeriods == Min2(periods, Len(data))
             k == Rat(2, effectivePeriods + 1)
             seed == Rat(SumSeq(SubSeq(data, 1, effectivePeriods)), effectivePeriods)
         IN  emaFrom(data, effectivePeriods, Len(data), k, seed)

\* arr[0] || null
FirstOrNull(arr) == IF Len(arr) > 0 THEN Some(arr[1]) ELSE Null

\* directionOf without the band of half a tick around the EMA
directionByAnyDiff(priceDiff) ==
    IF RLt(RZero, priceDiff) THEN "UP"
    ELSE IF RLt(priceDiff, RZero) THEN "DOWN"
    ELSE "FLAT"

\* the direction chosen by the tests priceDiff > tickSize * 0.5 and
\* priceDiff < -tickSize * 0.5
directionOf(priceDiff) ==
    IF RLt(Rat(tickSize, 2), priceDiff) THEN "UP"
    ELSE IF RLt(priceDiff, Rat(-tickSize, 2)) THEN "DOWN"
    ELSE "FLAT"

\* calculateSupportResistance(): [set, val, df], df the rows of this.df afterwards
supportResistance(dfFull) ==
    IF Len(dfFull) = 0
    THEN [set |-> FALSE, df |-> dfFull,
          val |-> [currentPrice |-> 0, direction |-> "FLAT", resistance |-> <<>>,
                   support |-> <<>>, nextTarget |-> Null, lookbackDays |-> 0]]
    ELSE LET n == Len(dfFull)
             look == lookbackOf(dfFull)
             rows == swingsOf(look.df)
             currentPrice == dfFull[n].spreadClose
             maxVolume == maxVolumeOf(rows)
             processed == processedOf(allLevelsOf(rows), maxVolume, currentPrice)
             side(above) == filterLevels(
                 SortByStrength(SelectSeq(processed, LAMBDA l : l.isResistance = above)),
                 topNLevels)
             recentPrices == Tup([i \in 1..Min2(n, 5) |-> dfFull[n - Min2(n, 5) + i].spreadClose])
             ema5 == emaCalc(recentPrices, 5)
             priceDiff == RSub(RInt(currentPrice), ema5)
             priceRange == MaxSeq(recentPrices) - MinSeq(recentPrices)
             trendStrength ==
                 IF priceRange > 0
                 THEN RMin(RMul(RAbs(RDiv(priceDiff, RInt(priceRange))), RInt(100)), RInt(100))
                 ELSE RZero
             direction == directionOf(priceDiff)
             target(resistance, support) ==
                 IF direction = "UP" THEN FirstOrNull(resistance)
                 ELSE IF direction = "DOWN" THEN FirstOrNull(support)
                 ELSE IF Len(resistance) > 0 THEN Some(resistance[1])
                 ELSE FirstOrNull(support)
         IN  Let(side(TRUE), LAMBDA resistance : Let(side(FALSE), LAMBDA support :
             [set |-> TRUE,
              df |-> Tup([i \in DOMAIN dfFull |->
                         IF i > n - Len(rows) THEN rows[i - (n - Len(rows))] ELSE dfFull[i]]),
              val |-> [currentPrice |-> currentPrice,
                       direction |-> direction,
                       trendStrength |-> MathRound(trendStrength.num, trendStrength.den),
                       ema5 |-> ema5,
                       resistance |-> resistance,
                       support |-> support,
                       nextTarget |-> target(resistance, support),
                       lookbackDays |-> look.actualLookback]]))

CalculateSupportResistance ==
    /\ CanCall("calculateSupportResistance")
    /\ \E out \in {supportResistance(df)} :
           /\ df' = out.df
           /\ results' = IF out.set THEN Put(results, "supportResistance", out.val) ELSE results
           /\ Called("calculateSupportResistance", <<>>, out.val)
    /\ UNCHANGED <<data1, data2, loaded, dfRaw, dfValid, rng>>

(***************************************************************************)
(* Distribution test suite: calculateStats                                 *)
(***************************************************************************)
\* A value jStat computes that is kept as the call that produces it
JStatCall(fn, args) == [jStat |-> fn, args |-> args]

\* jStat.median(arr), arr a sequence of integers
jStatMedian(arr) == MiddleOf(SortNum(arr))

SumProd(a, b) == SumSeq(Tup([i \in DOMAIN a |-> a[i] * b[i]]))

\* autocorrOf without the guard on a zero standard deviation: 0 / 0
autocorrUnguarded(tickMoves, lag) ==
    LET n == Len(tickMoves) - lag
        var1 == jStatVariance(SubSeq(tickMoves, 1, n))
        var2 == jStatVariance(SubSeq(tickMoves, lag + 1, Len(tickMoves)))
    IN  IF IsNaN(var1) \/ IsNaN(var2) \/ var1.num = 0 \/ var2.num = 0 THEN Some(NaN)
        ELSE Some(Surd(RZero, ROne, RInv(RMul(var1, var2))))

\* autocorrelation[`lag_${lag}`] for a lag below tickMoves.length
autocorrOf(tickMoves, lag) ==
    LET n == Len(tickMoves) - lag
        slice1 == SubSeq(tickMoves, 1, n)
        slice2 == SubSeq(tickMoves, lag + 1, Len(tickMoves))
        var1 == jStatVariance(slice1)
        var2 == jStatVariance(slice2)
        \* sum of (slice1[i] - mean1) * (slice2[i] - mean2)
        sum == Rat(n * SumProd(slice1, slice2) - SumSeq(slice1) * SumSeq(slice2), n)
    IN  IF IsNaN(var1) \/ IsNaN(var2) THEN NaN
        ELSE IF var1.num = 0 \/ var2.num = 0 THEN Null
        \* sum / ((n - 1) * std1 * std2), finite as std1 and std2 are not 0
        ELSE Some(Surd(RZero, RDiv(sum, RInt(n - 1)), RInv(RMul(var1, var2))))

Lags == <<1, 2, 3, 5>>

\* the runs test of calculateStats
runsTestOf(tickMoves) ==
    LET median == jStatMedian(tickMoves)
        above == Tup([i \in DOMAIN tickMoves |-> RLt(median, RInt(tickMoves[i]))])
        nAbove == Count(above, LAMBDA x : x)
        nBelow == Len(above) - nAbove
        runs == 1 + Cardinality({i \in 2..Len(above) : above[i] # above[i - 1]})
        expRuns == RAdd(ROne, Rat(2 * nAbove * nBelow, nAbove + nBelow))
        varRuns == Rat(2 * nAbove * nBelow * (2 * nAbove * nBelow - nAbove - nBelow),
                       (nAbove + nBelow) * (nAbove + nBelow) * (nAbove + nBelow - 1))
        \* Math.max(varRuns, 1e-9)
        floored == RMax(varRuns, Rat(1, 1000000000))
        diff == RSub(RInt(runs), expRuns)
    IN  IF nAbove = 0 \/ nBelow = 0
        THEN [zStat |-> Null, isRandom |-> Null, note |-> Some("not applicable (flat series)")]
        ELSE [zStat |-> Some(Surd(RZero, diff, RInv(floored))),
              \* |zRuns| < 1.96, compared on the squares
              isRandom |-> Some(RLt(RDiv(RMul(diff, diff), floored), Rat(38416, 10000))),
              note |-> Null]

\* calculateStats(): [set, val].  jStat.skewness, jStat.kurtosis and jStat.ttest
\* are kept as calls; hasBias is the outcome of tResult < 0.05
stats(raw, hasBias) ==
    LET tickMoves == Tup([i \in DOMAIN raw |-> Val(raw[i].tickMove)])
        absMoves == Tup([i \in DOMAIN raw |-> Val(raw[i].absTickMove)])
        stdDir == jStatStdev(tickMoves)
        flat == stdDir = RZero
        distribution ==
            [meanAbs |-> jStatMean(absMoves),
             stdAbs |-> jStatStdev(absMoves),
             stdDir |-> stdDir,
             medianAbs |-> jStatMedian(absMoves),
             meanDir |-> jStatMean(tickMoves),
             skewness |-> IF flat THEN RZero ELSE JStatCall("skewness", <<tickMoves>>),
             kurtosis |-> IF flat THEN RZero
                          ELSE [minus3 |-> JStatCall("kurtosis", <<tickMoves>>)],
             isFlatline |-> flat]
        lags == SelectSeq(Lags, LAMBDA lag : Len(tickMoves) > lag)
        autocorrelation == Fcn([lag \in Range(lags) |-> autocorrOf(tickMoves, lag)])
        ttest ==
            IF flat
            THEN [tStat |-> RZero, pValue |-> ROne, hasBias |-> FALSE,
                  note |-> "flatline series"]
            ELSE [tStat |-> Surd(RZero, jStatMean(tickMoves),
                                 RDiv(RInt(Len(tickMoves)), jStatVariance(tickMoves))),
                  pValue |-> JStatCall("ttest", <<tickMoves, 0, 2>>),
                  hasBias |-> hasBias]
    IN  IF Len(tickMoves) < 10 THEN [set |-> FALSE, val |-> EmptyObj]
        ELSE [set |-> TRUE,
              val |-> [distribution |-> distribution, autocorrelation |-> autocorrelation,
                       ttest |-> ttest, runsTest |-> runsTestOf(tickMoves)]]

CalculateStats ==
    /\ CanCall("calculateStats")
    /\ \E hasBias \in BOOLEAN :
          PassWrites("calculateStats", "stats", stats(RowsOf(dfRaw), hasBias))

(***************************************************************************)
(* Sequential analyzer: streaks, ranges, expected value, weekdays, recency *)
(***************************************************************************)
\* the tickMove of each row of a set in which none is null
TickMovesOf(rows) == Tup([i \in DOMAIN rows |-> Val(rows[i].tickMove)])

\* the locals of calculateStreaks before its loop
StreakStart ==
    [currentStreak |-> 0, currentDirection |-> 0, upStreaks |-> <<>>, downStreaks |-> <<>>,
     consecutiveUp |-> 0, consecutiveDown |-> 0, twoUpCount |-> 0, twoDownCount |-> 0]

\* streakStep with a zero move passed over: it ends no streak
streakStepZeroPassed(st, move) ==
    IF move > 0
    THEN [currentStreak |-> IF st.currentDirection = 1 THEN st.currentStreak + 1 ELSE 1,
          currentDirection |-> 1,
          upStreaks |-> st.upStreaks,
          downStreaks |-> IF st.currentDirection = -1 /\ st.currentStreak > 0
                          THEN Append(st.downStreaks, st.currentStreak) ELSE st.downStreaks,
          consecutiveUp |-> st.consecutiveUp + 1,
          consecutiveDown |-> 0,
          twoUpCount |-> IF st.consecutiveUp + 1 >= 2 THEN st.twoUpCount + 1 ELSE st.twoUpCount,
          twoDownCount |-> st.twoDownCount]
    ELSE IF move < 0
    THEN [currentStreak |-> IF st.currentDirection = -1 THEN st.currentStreak + 1 ELSE 1,
          currentDirection |-> -1,
          upStreaks |-> IF st.currentDirection = 1 /\ st.currentStreak > 0
                        THEN Append(st.upStreaks, st.currentStreak) ELSE st.upStreaks,
          downStreaks |-> st.downStreaks,
          consecutiveUp |-> 0,
          consecutiveDown |-> st.consecutiveDown + 1,
          twoUpCount |-> st.twoUpCount,
          twoDownCount |-> IF st.consecutiveDown + 1 >= 2 THEN st.twoDownCount + 1
                           ELSE st.twoDownCount]
    ELSE st

\* one iteration of the loop of calculateStreaks, on the move of the row
streakStep(st, move) ==
    IF move > 0
    THEN [currentStreak |-> IF st.currentDirection = 1 THEN st.currentStreak + 1 ELSE 1,
          currentDirection |-> 1,
          upStreaks |-> st.upStreaks,
          downStreaks |-> IF st.currentDirection = -1 /\ st.currentStreak > 0
                          THEN Append(st.downStreaks, st.currentStreak) ELSE st.downStreaks,
          consecutiveUp |-> st.consecutiveUp + 1,
          consecutiveDown |-> 0,
          twoUpCount |-> IF st.consecutiveUp + 1 >= 2 THEN st.twoUpCount + 1 ELSE st.twoUpCount,
          twoDownCount |-> st.twoDownCount]
    ELSE IF move < 0
    THEN [currentStreak |-> IF st.currentDirection = -1 THEN st.currentStreak + 1 ELSE 1,
          currentDirection |-> -1,
          upStreaks |-> IF st.currentDirection = 1 /\ st.currentStreak > 0
                        THEN Append(st.upStreaks, st.currentStreak) ELSE st.upStreaks,
          downStreaks |-> st.downStreaks,
          consecutiveUp |-> 0,
          consecutiveDown |-> st.consecutiveDown + 1,
          twoUpCount |-> st.twoUpCount,
          twoDownCount |-> IF st.consecutiveDown + 1 >= 2 THEN st.twoDownCount + 1
                           ELSE st.twoDownCount]
    ELSE [currentStreak |-> 0,
          currentDirection |-> 0,
          upStreaks |-> IF st.currentDirection = 1 /\ st.currentStreak > 0
                        THEN Append(st.upStreaks, st.currentStreak) ELSE st.upStreaks,
          downStreaks |-> IF st.currentDirection = -1 /\ st.currentStreak > 0
                          THEN Append(st.downStreaks, st.currentStreak) ELSE st.downStreaks,
          consecutiveUp |-> 0,
          consecutiveDown |-> 0,
          twoUpCount |-> st.twoUpCount,
          twoDownCount |-> st.twoDownCount]

RECURSIVE streakScan(_, _, _, _)
\* the locals after the loop has run over moves[lo..hi] from the locals st, by
\* halves
streakScan(moves, lo, hi, st) ==
    IF lo > hi THEN st
    ELSE IF lo = hi THEN streakStep(st, moves[lo])
    ELSE LET half == streakScan(moves, lo, (lo + hi) \div 2, st)
         IN  IF half.currentStreak >= 0
             THEN streakScan(moves, (lo + hi) \div 2 + 1, hi, half) ELSE half

\* calculateStreaks(): [set, val]
streaks(valid) ==
    LET n == Len(valid)
        st == streakScan(TickMovesOf(valid), 1, n, StreakStart)
        \* "Push final streak"
        upStreaks == IF st.currentDirection = 1 /\ st.currentStreak > 0
                     THEN Append(st.upStreaks, st.currentStreak) ELSE st.upStreaks
        downStreaks == IF st.currentDirection = -1 /\ st.currentStreak > 0
                       THEN Append(st.downStreaks, st.currentStreak) ELSE st.downStreaks
        side(lengths, twoCount) ==
            [count |-> Len(lengths),
             avgLength |-> IF Len(lengths) > 0 THEN jStatMean(lengths) ELSE RZero,
             maxLength |-> IF Len(lengths) > 0 THEN MaxSeq(lengths) ELSE 0,
             probTwoPlus |-> Rat(twoCount, n),
             probTwoPlusCI |-> wilson(twoCount, n)]
    IN  IF n < 3 THEN [set |-> FALSE, val |-> EmptyObj]
        ELSE [set |-> TRUE,
              val |-> [upStreaks |-> side(upStreaks, st.twoUpCount),
                       downStreaks |-> side(downStreaks, st.twoDownCount)]]

CalculateStreaks ==
    /\ CanCall("calculateStreaks")
    /\ PassWrites("calculateStreaks", "streaks", streaks(RowsOf(dfValid)))

\* rangeProbabilities with a move of exactly nticks counted as within
rangeWithinInclusive(valid) ==
    LET n == Len(valid)
        within(nticks) == Count(valid, LAMBDA r : Num(r.absTickMove) <= nticks)
        breakout(nticks) == Count(valid, LAMBDA r : ~(Num(r.absTickMove) <= nticks))
    IN  IF n = 0 THEN [set |-> FALSE, val |-> EmptyObj]
        ELSE [set |-> TRUE,
              val |-> Fcn([nticks \in LevelSet |->
                         [probWithin |-> Rat(within(nticks), n),
                          probWithinCI |-> wilson(within(nticks), n),
                          probBreakout |-> Rat(breakout(nticks), n),
                          probBreakoutCI |-> wilson(breakout(nticks), n)]])]

\* calculateRangeProbabilities(): [set, val]
rangeProbabilities(valid) ==
    LET n == Len(valid)
        within(nticks) == Count(valid, LAMBDA r : Num(r.absTickMove) < nticks)
        breakout(nticks) == Count(valid, LAMBDA r : ~(Num(r.absTickMove) < nticks))
    IN  IF n = 0 THEN [set |-> FALSE, val |-> EmptyObj]
        ELSE [set |-> TRUE,
              val |-> Fcn([nticks \in LevelSet |->
                         [probWithin |-> Rat(within(nticks), n),
                          probWithinCI |-> wilson(within(nticks), n),
                          probBreakout |-> Rat(breakout(nticks), n),
                          probBreakoutCI |-> wilson(breakout(nticks), n)]])]

CalculateRangeProbabilities ==
    /\ CanCall("calculateRangeProbabilities")
    /\ PassWrites("calculateRangeProbabilities", "rangeProbs",
                  rangeProbabilities(RowsOf(dfValid)))

\* x -/+ 1.96 * jStat.stdev(arr, true) / Math.sqrt(n), for the sign given
normalBound(x, sign, arr) ==
    LET variance == jStatVariance(arr)
    IN  IF IsNaN(variance) THEN NaN
        ELSE IF variance.num = 0 THEN x
        ELSE Surd(x, Rat(sign * 196, 100), RDiv(variance, RInt(Len(arr))))

\* ratioOrInfinity with 0 in place of Infinity
ratioOrZero(gains, losses) ==
    IF losses.num > 0 THEN RDiv(gains, losses) ELSE RZero

\* totalLosses > 0 ? gains / losses : gains > 0 ? Infinity : 0
ratioOrInfinity(gains, losses) ==
    IF losses.num > 0 THEN RDiv(gains, losses)
    ELSE IF gains.num > 0 THEN PosInf ELSE RZero

\* calculateExpectedValue(): [set, val]
expectedValue(valid) ==
    LET tickMoves == TickMovesOf(valid)
        absMoves == Tup([i \in DOMAIN valid |-> Val(valid[i].absTickMove)])
        gains == SelectSeq(tickMoves, LAMBDA t : t > 0)
        losses == SelectSeq(tickMoves, LAMBDA t : t < 0)
        avgGain == IF Len(gains) > 0 THEN jStatMean(gains) ELSE RZero
        avgLoss == IF Len(losses) > 0 THEN RAbs(jStatMean(losses)) ELSE RZero
        totalGains == SumSeq(gains)
        totalLosses == Abs(SumSeq(losses))
        expectedTick == jStatMean(tickMoves)
    IN  IF Len(valid) = 0 THEN [set |-> FALSE, val |-> EmptyObj]
        ELSE [set |-> TRUE,
              val |-> [expectedTick |-> expectedTick,
                       expectedTickCI |-> <<normalBound(expectedTick, -1, tickMoves),
                                            normalBound(expectedTick, 1, tickMoves)>>,
                       expectedAbs |-> jStatMean(absMoves),
                       avgGain |-> avgGain,
                       avgLoss |-> avgLoss,
                       winRate |-> Rat(Len(gains), Len(valid)),
                       winRateCI |-> wilson(Len(gains), Len(valid)),
                       profitFactor |-> ratioOrInfinity(RInt(totalGains), RInt(totalLosses)),
                       riskReward |-> ratioOrInfinity(avgGain, avgLoss),
                       totalGains |-> totalGains,
                       totalLosses |-> totalLosses]]

CalculateExpectedValue ==
    /\ CanCall("calculateExpectedValue")
    /\ PassWrites("calculateExpectedValue", "expectedValue", expectedValue(RowsOf(dfValid)))

dayNames == <<"Sunday", "Monday", "Tuesday", "Wednesday", "Thursday", "Friday", "Saturday">>

\* date.getDay() in a UTC environment: day 0 of the epoch is a Thursday
getDay(date) == ((date \div msPerDay) + 4) % 7

\* calculateWeekdayProbs(): [set, val]
weekdayProbs(valid) ==
    LET movesOf(day) ==
            TickMovesOf(SelectSeq(valid, LAMBDA r : getDay(r.datetime) = day))
        entry(day) ==
            LET moves == movesOf(day)
                total == Len(moves)
                up == Count(moves, LAMBDA t : t > 0)
                down == Count(moves, LAMBDA t : t < 0)
            IN  [n |-> total,
                 probUp |-> Rat(up, total),
                 probUpCI |-> wilson(up, total),
                 probDown |-> Rat(down, total),
                 probDownCI |-> wilson(down, total),
                 avgMove |-> IF Len(moves) > 0 THEN jStatMean(moves) ELSE RZero,
                 volatility |-> IF Len(moves) > 1 THEN jStatStdev(moves) ELSE RZero]
        \* "Min 5 samples per day"
        days == {day \in 0..6 : Len(movesOf(day)) >= 5}
    IN  IF Len(valid) = 0 THEN [set |-> FALSE, val |-> EmptyObj]
        ELSE [set |-> TRUE,
              val |-> Fcn([name \in {dayNames[day + 1] : day \in days} |->
                         entry(CHOOSE day \in days : dayNames[day + 1] = name)])]

CalculateWeekdayProbs ==
    /\ CanCall("calculateWeekdayProbs")
    /\ PassWrites("calculateWeekdayProbs", "weekday", weekdayProbs(RowsOf(dfValid)))

\* calculateRecentComparison(): [set, val]
recentComparison(valid) ==
    LET n == Len(valid)
        recent == SubSeq(valid, n - 29, n)
        historical == SubSeq(valid, 1, n - 30)
        ups(rows) == Count(rows, LAMBDA r : Num(r.tickMove) > 0)
        block(rows) ==
            [n |-> Len(rows),
             probUp |-> Rat(ups(rows), Len(rows)),
             probUpCI |-> wilson(ups(rows), Len(rows)),
             avgMove |-> jStatMean(TickMovesOf(rows)),
             volatility |-> jStatStdev(TickMovesOf(rows))]
    IN  IF n < 60 THEN [set |-> FALSE, val |-> EmptyObj]
        ELSE [set |-> TRUE,
              val |-> [recent |-> block(recent),
                       historical |-> block(historical),
                       regimeChange |->
                           RLt(Rat(1, 10),
                               RAbs(RSub(Rat(ups(recent), Len(recent)),
                                         Rat(ups(historical), Len(historical)))))]]

CalculateRecentComparison ==
    /\ CanCall("calculateRecentComparison")
    /\ PassWrites("calculateRecentComparison", "recentComparison",
                  recentComparison(RowsOf(dfValid)))

\* getTickDistribution(): the entries, ascending by tick
tickDistribution(valid) ==
    LET moves == TickMovesOf(valid)
        ticks == KeysInOrder(Range(moves))
    IN  Tup([k \in DOMAIN ticks |->
            LET v == Count(moves, LAMBDA t : t = ticks[k])
            IN  [tick |-> ticks[k], count |-> v,
                 pct |-> RMul(Rat(v, Len(valid)), RInt(100))]])

\* reads only: this.results is left as it is
GetTickDistribution ==
    /\ CanCall("getTickDistribution")
    /\ PassWrites("getTickDistribution", "none",
                  [set |-> FALSE, val |-> tickDistribution(RowsOf(dfValid))])

\* Every pass reads this.df, this.dfRaw or this.dfValid first; before loadAndMerge
\* they are null, and the read raises a TypeError that leaves the object as it was
TypeError == [raised |-> "TypeError"]

CallBeforeLoad ==
    /\ mode = "free" /\ ~loaded /\ calls < MaxCalls
    /\ \E op \in Range(AppOrder) : Called(op, <<>>, TypeError)
    /\ UNCHANGED <<data1, data2, loaded, df, dfRaw, dfValid, results, rng>>

Next ==
    \/ CallBeforeLoad
    \/ LoadAndMerge
    \/ CalculateEmpiricalProbabilities
    \/ CalculateVolumeWeighted
    \/ CalculateBootstrap
    \/ CalculateConditional
    \/ CalculateSupportResistance
    \/ CalculateStats
    \/ CalculateStreaks
    \/ CalculateRangeProbabilities
    \/ CalculateExpectedValue
    \/ CalculateWeekdayProbs
    \/ CalculateRecentComparison
    \/ GetTickDistribution

Spec == Init /\ [][Next]_vars

(***************************************************************************)
(* App: handleFilesSelected and handleReset                                *)
(***************************************************************************)
\* what Papa.parse returns for a text: its errors, the header fields after
\* transformHeader, and the rows; a cell is Some(number) where parseFloat or
\* new Date can read it and Null where they give NaN or an Invalid Date
Papa(errors, fields, data) == [errors |-> errors, fields |-> fields, data |-> data]

required == <<"datetime", "open", "high", "low", "close", "volume">>

Cells(t, c, v) == [datetime |-> t, close |-> c, volume |-> v]

\* the text of a file that holds the bars of a leg
TextOf(leg) ==
    Papa(<<>>, required,
         [i \in DOMAIN leg |-> Cells(Some(leg[i].datetime), Some(leg[i].close), leg[i].volume)])

\* a File: text() resolves to its content, or rejects
File(readable, content) == [readable |-> readable, content |-> content]

Legs == {GateSeries[1], GateSeries[2], Aligned(ScenarioCloses)[1], RawLeg(<<5>>, 100)}

\* the files a user can pick: the legs; a text Papa reports an error for; texts
\* without some of the required columns; a header without rows; rows whose
\* close or datetime cannot be read, alone and among good rows; and a file
\* that cannot be read
Files ==
    {File(TRUE, TextOf(leg)) : leg \in Legs}
    \cup {File(TRUE, Papa(<< [row |-> 2, message |-> "Too few fields"] >>, required, <<>>)),
          File(TRUE, Papa(<<>>, <<"datetime", "open", "high", "low", "close">>,
                          <<Cells(Some(4), Some(500), 0)>>)),
          File(TRUE, Papa(<<>>, <<"date", "open", "high", "low", "volume">>, <<>>)),
          File(TRUE, Papa(<<>>, required, <<>>)),
          File(TRUE, Papa(<<>>, required,
                          <<Cells(Some(4), Null, 1), Cells(Null, Some(500), 1)>>)),
          File(TRUE, Papa(<<>>, required,
                          <<Cells(Some(4), Some(500), 1), Cells(Some(8), Null, 1),
                            Cells(Some(12), Some(504), 1), Cells(Null, Some(600), 1)>>)),
          File(FALSE, Papa(<<>>, <<>>, <<>>))}

\* the rows parseCSV keeps: close is not NaN and datetime is a valid date
ValidCells(data) == SelectSeq(data, LAMBDA row : row.close # Null /\ row.datetime # Null)

\* throw new Error(message): the message is kept as the parts of its template
Error(message) == [raised |-> "Error", message |-> message]
Returned(val) == [raised |-> "none", val |-> val]

\* parseCSV(text)
parseCSV(text) ==
    IF Len(text.errors) > 0
    THEN Error(<<"CSV parse error at row ", text.errors[1].row, ": ",
                 text.errors[1].message>>)
    ELSE IF \E col \in Range(required) : col \notin Range(text.fields)
    THEN Error(<<"Missing required columns: ",
                 SelectSeq(required, LAMBDA col : col \notin Range(text.fields))>>)
    ELSE Returned(Tup([i \in DOMAIN ValidCells(text.data) |->
                      Bar(Val(ValidCells(text.data)[i].datetime),
                          Val(ValidCells(text.data)[i].close),
                          ValidCells(text.data)[i].volume)]))

\* this.results after the passes whose outcomes [section, set, val] are given
PutAll(res, outs) ==
    [k \in DOMAIN res \cup {outs[i].section : i \in {j \in DOMAIN outs : outs[j].set}} |->
        IF \E i \in DOMAIN outs : outs[i].set /\ outs[i].section = k
        THEN outs[CHOOSE i \in DOMAIN outs : outs[i].set /\ outs[i].section = k].val
        ELSE res[k]]

Written(section, val) == [section |-> section, set |-> TRUE, val |-> val]
WrittenIf(section, out) == [section |-> section, set |-> out.set, val |-> out.val]

\* the passes in App's order on the data sets loadAndMerge leaves:
\* calculator.results and calculator.getTickDistribution()
passesOn(full, raw, valid, filteredResults, hasBias) ==
    [results |->
        PutAll(LoadResults(EmptyObj, full, RowIdsWhere(full, InRaw),
                           RowIdsWhere(full, InValid)),
               <<Written("empiricalRaw", computeProbs(raw, "Real World (Inc. Spikes)")),
                 Written("empiricalFiltered", filteredResults),
                 Written("empirical", filteredResults.probs),
                 WrittenIf("volWeighted", volumeWeighted(raw)),
                 WrittenIf("bootstrap", bootstrap(valid, bootstrapIterations, DefaultSeed)),
                 Written("conditional", conditional(valid)),
                 WrittenIf("supportResistance", supportResistance(full)),
                 WrittenIf("stats", stats(raw, hasBias)),
                 WrittenIf("streaks", streaks(valid)),
                 WrittenIf("rangeProbs", rangeProbabilities(valid)),
                 WrittenIf("expectedValue", expectedValue(valid)),
                 WrittenIf("weekday", weekdayProbs(valid)),
                 WrittenIf("recentComparison", recentComparison(valid))>>),
     tickDistribution |-> tickDistribution(valid)]

analysisOf(full, hasBias) ==
    passesOn(full, SelectSeq(full, InRaw), SelectSeq(full, InValid),
             computeProbs(SelectSeq(full, InValid), "Normal Regime"), hasBias)

\* new SpreadCalculator(config), loadAndMerge(data1, data2) and the passes
runAnalysis(d1, d2, hasBias) == analysisOf(MarkOutliers(MergedRows(d1, d2)), hasBias)

\* the try block after both texts are there
tryParsed(parsed1, parsed2, hasBias) ==
    IF parsed1.raised # "none" THEN parsed1
    ELSE IF parsed2.raised # "none" THEN parsed2
    ELSE IF Len(parsed1.val) = 0 \/ Len(parsed2.val) = 0
    THEN Error(<<"One or both files contain no valid data">>)
    ELSE Returned(runAnalysis(parsed1.val, parsed2.val, hasBias))

\* the try block of handleFilesSelected from the await on: what it throws, or
\* the analysis it completes
tryBlock(file1, file2, hasBias) ==
    IF ~(file1.readable /\ file2.readable)
    THEN Error(<<"The requested file could not be read">>)
    ELSE tryParsed(parseCSV(file1.content), parseCSV(file2.content), hasBias)

\* handleFilesSelected up to its await without setError(null)
startedKeepsError(state) ==
    [state EXCEPT !.isLoading = TRUE, !.loadingProgress = 10, !.results = Null]

\* handleFilesSelected up to its await
started(state) ==
    [state EXCEPT !.isLoading = TRUE, !.loadingProgress = 10, !.error = Null,
                  !.results = Null]

\* err.message || 'An error occurred during analysis'
messageOf(err) ==
    IF err.message = <<>> THEN <<"An error occurred during analysis">> ELSE err.message

\* setResults and setTickDistribution at the end of the try block, or the catch
\* block
tried(state, outcome) ==
    IF outcome.raised = "none"
    THEN [state EXCEPT !.results = Some(outcome.val.results),
                       !.tickDistribution = Some(outcome.val.tickDistribution),
                       !.loadingProgress = 100]
    ELSE [state EXCEPT !.error = Some(messageOf(outcome))]

\* the state the rest of handleFilesSelected leaves, its finally block included
settled(state, outcome) ==
    [tried(state, outcome) EXCEPT !.isLoading = FALSE, !.loadingProgress = 0]

InitApp ==
    /\ app = useState /\ pending = Null
    /\ config = [minExpandingWindow |-> minExpandingWindow]
    /\ data1 = <<>> /\ data2 = <<>> /\ loaded = FALSE
    /\ df = <<>> /\ dfRaw = <<>> /\ dfValid = <<>>
    /\ results = EmptyObj
    /\ ret = [op |-> "none", args |-> <<>>, val |-> Undefined]
    /\ prevRet = [op |-> "none", args |-> <<>>, val |-> Undefined]
    /\ rng = Null /\ mode = "ui" /\ step = 0 /\ calls = 0 /\ wilsonArgs = Null

AppFrame ==
    UNCHANGED <<config, data1, data2, loaded, df, dfRaw, dfValid, results, rng, mode, step,
                calls, wilsonArgs>>

\* FileUpload is rendered while results is null, and its button calls
\* onFilesSelected when two files are chosen and isLoading is false; the handler
\* runs up to its await
HandleFilesSelected ==
    /\ app.results = Null /\ ~app.isLoading
    /\ \E file1 \in Files, file2 \in Files :
           /\ pending' = Some(<<file1, file2>>)
           /\ ret' = [op |-> "handleFilesSelected", args |-> <<>>, val |-> Undefined]
    /\ app' = started(app)
    /\ prevRet' = ret
    /\ AppFrame

\* the texts arrive, or a read fails: the rest of the handler runs to its end
FilesRead ==
    /\ pending # Null
    /\ \E hasBias \in BOOLEAN :
       \E outcome \in {tryBlock(Val(pending)[1], Val(pending)[2], hasBias)} :
           /\ app' = settled(app, outcome)
           /\ ret' = [op |-> "filesRead", args |-> <<>>,
                      val |-> IF outcome.raised = "none" THEN Undefined ELSE outcome]
    /\ pending' = Null
    /\ prevRet' = ret
    /\ AppFrame

\* the New Analysis button is rendered while results is not null
HandleReset ==
    /\ app.results # Null
    /\ app' = [app EXCEPT !.results = Null, !.tickDistribution = Null, !.error = Null]
    /\ ret' = [op |-> "handleReset", args |-> <<>>, val |-> Undefined]
    /\ prevRet' = ret
    /\ UNCHANGED pending
    /\ AppFrame

NextApp ==
    \/ HandleFilesSelected
    \/ FilesRead
    \/ HandleReset

SpecApp == InitApp /\ [][NextApp]_vars

(***************************************************************************)
(* Claims                                                                  *)
(***************************************************************************)
\* C1: in both regime blocks that calculateEmpiricalProbabilities returns (rawSet
\* and validSet) and for every configured tick level n, probUpAtLeast(n) +
\* probDownAtLeast(n) <= 1, and the sum is 1 only when no bar of that set has
\* |tickMove| < n.
C1_UpPlusDownAtMostOne ==
    (ret.op = "calculateEmpiricalProbabilities" /\ ret.val # TypeError) =>
        \A b \in {<<ret.val.raw, dfRaw>>, <<ret.val.filtered, dfValid>>} :
            /\ b[1].n = Len(b[2])
            /\ b[1].n > 0 => LevelSet \subseteq DOMAIN b[1].probs
            /\ \A n \in DOMAIN b[1].probs \ {0} :
                  LET sum == RAdd(b[1].probs[n].probUpAtLeast, b[1].probs[n].probDownAtLeast)
                  IN  /\ RLeq(sum, ROne)
                      /\ sum = ROne =>
                            \A k \in DOMAIN b[2] : Abs(Val(Row(b[2][k]).tickMove)) >= n

\* the normal-regime block has a level where the sum is 1 and a level where it
\* is strictly between 0 and 1
C1_Witness ==
    /\ ret.op = "calculateEmpiricalProbabilities" /\ ret.val # TypeError
    /\ ret.val.filtered.n >= 3
    /\ \E n, m \in DOMAIN ret.val.filtered.probs \ {0} :
          LET sumAt(l) == RAdd(ret.val.filtered.probs[l].probUpAtLeast,
                               ret.val.filtered.probs[l].probDownAtLeast)
          IN  sumAt(n) = ROne /\ RLt(RZero, sumAt(m)) /\ RLt(sumAt(m), ROne)

\* C3: after loadAndMerge validSet is a subset of rawSet and rawSet a subset of
\* allBars, and within rawSet every row is exactly one of valid, outlier and
\* warm-up, so |validSet| = |rawSet| - outliers in rawSet - warm-ups in rawSet.
C3_Partitions ==
    loaded =>
        LET raw == RowsOf(dfRaw)
        IN  /\ Range(dfValid) \subseteq Range(dfRaw)
            /\ Range(dfRaw) \subseteq {df[i].rowId : i \in DOMAIN df}
            /\ Len(dfValid) = Len(dfRaw) - Count(raw, LAMBDA r : r.isOutlier)
                                         - Count(raw, LAMBDA r : r.isWarmup)
            /\ \A k \in DOMAIN raw :
                  /\ ~(raw[k].isOutlier /\ raw[k].isWarmup)
                  /\ (raw[k].rowId \in Range(dfValid)) <=>
                        (~raw[k].isOutlier /\ ~raw[k].isWarmup)

\* a load whose rawSet holds an outlier, a warm-up row and a valid row
C3_Witness ==
    /\ ret.op = "loadAndMerge"
    /\ \E a, b, c \in DOMAIN dfRaw :
          /\ Row(dfRaw[a]).isOutlier
          /\ Row(dfRaw[b]).isWarmup
          /\ dfRaw[c] \in Range(dfValid)
    /\ Len(df) > Len(dfRaw)

\* one side of a support/resistance result: the reported levels are pairwise at
\* least srMinDistanceTicks * tickSize apart, at most topNLevels, nearest first
SideWellSpaced(levels) ==
    /\ Len(levels) <= topNLevels
    /\ \A i, j \in DOMAIN levels :
          i # j => Abs(levels[i].price - levels[j].price) >= srMinDistanceTicks * tickSize
    /\ \A i \in 1..(Len(levels) - 1) : levels[i].distance <= levels[i + 1].distance

\* C5: in the result of calculateSupportResistance, on each side any two reported
\* levels are at least srMinDistanceTicks * tickSize apart in price, at most
\* topNLevels levels are reported, and the list is in ascending distance from the
\* current price.
C5_LevelsWellSpaced ==
    (ret.op = "calculateSupportResistance" /\ ret.val # TypeError) =>
        SideWellSpaced(ret.val.resistance) /\ SideWellSpaced(ret.val.support)

\* a result that reports topNLevels (at least two) levels on one side, while a
\* bar of the series sits at a third price on that side
C5_Witness ==
    /\ ret.op = "calculateSupportResistance" /\ ret.val # TypeError
    /\ Len(ret.val.resistance) = topNLevels /\ topNLevels >= 2
    /\ \E i \in DOMAIN df :
          /\ df[i].spreadClose > ret.val.currentPrice + tickSize
          /\ \A k \in DOMAIN ret.val.resistance :
                ret.val.resistance[k].price # df[i].tickIdx * tickSize

\* C6: in every merged series the first row has priceChange, tickMove,
\* absTickMove and daysGap null, and each later row has the integer tickMove
\* nearest to (spreadClose[i] - spreadClose[i-1]) / tickSize (a half rounds up)
\* and absTickMove = |tickMove|; spread closes 1.00, 1.01, 1.00, 1.02, 1.00 at
\* tickSize 0.005 give tickMove null, 2, -2, 4, -4.
C6_TickMoves ==
    (loaded /\ Len(df) > 0) =>
        /\ df[1].priceChange = Null /\ df[1].tickMove = Null
        /\ df[1].absTickMove = Null /\ df[1].daysGap = Null
        /\ \A i \in 2..Len(df) :
              LET change == df[i].spreadClose - df[i - 1].spreadClose
                  t == Val(df[i].tickMove)
              IN  /\ df[i].priceChange = Some(change)
                  /\ df[i].tickMove # Null /\ t \in Int
                  /\ (2 * t - 1) * tickSize <= 2 * change
                  /\ 2 * change < (2 * t + 1) * tickSize
                  /\ df[i].absTickMove = Some(Abs(t))
        /\ [i \in DOMAIN df |-> df[i].spreadClose] = ScenarioCloses =>
              [i \in DOMAIN df |-> df[i].tickMove] = <<Null, Some(2), Some(-2), Some(4), Some(-4)>>

\* the scenario's series has just been loaded
C6_Witness ==
    /\ ret.op = "loadAndMerge"
    /\ [i \in DOMAIN df |-> df[i].spreadClose] = ScenarioCloses
    /\ df[1].tickMove = Null /\ df[5].tickMove = Some(-4) /\ df[5].absTickMove = Some(4)

ValidSetPasses ==
    {"calculateBootstrap", "calculateConditional", "calculateStreaks",
     "calculateRangeProbabilities", "calculateExpectedValue", "calculateWeekdayProbs",
     "calculateRecentComparison"}

\* every row is warm-up and none an outlier, and validSet is empty
AllWarmup ==
    /\ \A i \in DOMAIN df : df[i].isWarmup /\ ~df[i].isOutlier
    /\ dfValid = <<>>

\* C7 as claimed: whenever the merged series has fewer rows than
\* minExpandingWindow, every row has isWarmup = true and isOutlier = false,
\* validSet is empty, and calculateConditional, calculateWeekdayProbs,
\* calculateStats and the other validSet-based passes each return an empty result.
C7_AsClaimed ==
    (loaded /\ Len(df) < config.minExpandingWindow) =>
        /\ AllWarmup
        /\ ret.op \in ValidSetPasses \cup {"calculateStats"} => ret.val = EmptyObj

\* C7 as amended: whenever the merged series has fewer rows than
\* minExpandingWindow, every row has isWarmup = true and isOutlier = false,
\* validSet is empty, and the validSet-based passes each return an empty result;
\* calculateStats, which reads rawSet, returns an empty result exactly when
\* rawSet has fewer than 10 rows.
C7_ShortSeriesAllWarmup ==
    (loaded /\ Len(df) < config.minExpandingWindow) =>
        /\ AllWarmup
        /\ ret.op \in ValidSetPasses => ret.val = EmptyObj
        /\ ret.op = "calculateStats" => (ret.val = EmptyObj <=> Len(dfRaw) < 10)

\* the scenario: 5 merged bars under minExpandingWindow = 20, the weekday pass
\* having returned after the conditional and distribution passes
C7_Witness ==
    /\ loaded /\ Len(df) = 5 /\ config.minExpandingWindow = 20
    /\ Len(dfRaw) = 4
    /\ ret.op = "calculateWeekdayProbs" /\ ret.val = EmptyObj
    /\ "conditional" \in DOMAIN results /\ results.conditional = EmptyObj
    /\ "stats" \notin DOMAIN results

\* C8: when rawSet has at least 10 rows and every tickMove in it is 0,
\* calculateStats returns ttest = {tStat: 0, pValue: 1, hasBias: false} with a
\* flatline note, skewness 0 and kurtosis 0, null for every autocorrelation lag
\* computed (1, 2, 3 and 5), and a runs test marked not applicable with zStat and
\* isRandom null.
C8_FlatSeriesStats ==
    (/\ ret.op = "calculateStats" /\ loaded /\ Len(dfRaw) >= 10
     /\ \A k \in DOMAIN dfRaw : Row(dfRaw[k]).tickMove = Some(0)) =>
        /\ ret.val.ttest = [tStat |-> RZero, pValue |-> ROne, hasBias |-> FALSE,
                            note |-> "flatline series"]
        /\ ret.val.distribution.skewness = RZero
        /\ ret.val.distribution.kurtosis = RZero
        /\ DOMAIN ret.val.autocorrelation = {1, 2, 3, 5}
        /\ \A lag \in DOMAIN ret.val.autocorrelation : ret.val.autocorrelation[lag] = Null
        /\ ret.val.runsTest.note = Some("not applicable (flat series)")
        /\ ret.val.runsTest.zStat = Null /\ ret.val.runsTest.isRandom = Null

\* calculateStats has returned on a flat rawSet of at least 10 rows
C8_Witness ==
    /\ ret.op = "calculateStats" /\ loaded /\ Len(dfRaw) >= 10
    /\ \A k \in DOMAIN dfRaw : Row(dfRaw[k]).tickMove = Some(0)
    /\ ret.val.distribution.isFlatline
    /\ results.stats = ret.val

\* the two legs share no date (one of them may be empty)
NoSharedDate ==
    \A i \in DOMAIN data1, j \in DOMAIN data2 :
        getDateKey(data1[i].datetime) # getDateKey(data2[j].datetime)

\* C9: if either input array is empty or the legs share no date, loadAndMerge and
\* every pass invoked after it complete without raising; allBars, rawSet and
\* validSet are empty; nValid, nRaw, nOutliers, nWarmup and totalVolume are 0;
\* spreadStats is {mean: 0, std: 0, min: 0, max: 0}; and
\* calculateSupportResistance returns direction FLAT, empty resistance and
\* support lists and a null target.
C9_EmptyMerge ==
    (loaded /\ NoSharedDate) =>
        /\ ret.val # TypeError
        /\ df = <<>> /\ dfRaw = <<>> /\ dfValid = <<>>
        /\ results.nValid = 0 /\ results.nRaw = 0 /\ results.nOutliers = 0
        /\ results.nWarmup = 0 /\ results.totalVolume = 0
        /\ results.spreadStats = [mean |-> RZero, std |-> RZero, min |-> RZero, max |-> RZero]
        /\ ret.op = "calculateSupportResistance" =>
              /\ ret.val.direction = "FLAT"
              /\ ret.val.resistance = <<>> /\ ret.val.support = <<>>
              /\ ret.val.nextTarget = Null

\* two non-empty legs without a shared date: calculateSupportResistance has
\* returned right after another pass
C9_Witness ==
    /\ loaded /\ NoSharedDate /\ Len(data1) > 0 /\ Len(data2) > 0
    /\ ret.op = "calculateSupportResistance" /\ ret.val.direction = "FLAT"
    /\ prevRet.op \in Range(AppOrder) \ {"calculateSupportResistance"}
    /\ prevRet.val # TypeError

\* a number that is neither NaN nor infinite
IsFinite(v) == IsRat(v) \/ IsSurd(v) \/ DOMAIN v = {"sqrt"}

\* C10: for every input, including a merge of exactly one row and a validSet of
\* exactly one row, no numeric field written to results (spreadStats.std,
\* expectedTickCI, bootstrap mean and interval, probabilities, correlations,
\* ema5, strength) is NaN or infinite.
C10_NoNaNInResults ==
    /\ "spreadStats" \in DOMAIN results =>
          \A f \in {"mean", "std", "min", "max"} : IsFinite(results.spreadStats[f])
    /\ "expectedValue" \in DOMAIN results =>
          /\ IsFinite(results.expectedValue.expectedTick)
          /\ IsFinite(results.expectedValue.expectedTickCI[1])
          /\ IsFinite(results.expectedValue.expectedTickCI[2])
          /\ IsFinite(results.expectedValue.winRate)
    /\ "bootstrap" \in DOMAIN results =>
          \A n \in DOMAIN results.bootstrap : \A side \in {"abs", "up", "down"} :
              /\ IsFinite(results.bootstrap[n][side].mean)
              /\ IsFinite(results.bootstrap[n][side].ci[1])
              /\ IsFinite(results.bootstrap[n][side].ci[2])
    /\ "empiricalRaw" \in DOMAIN results =>
          \A b \in {results.empiricalRaw, results.empiricalFiltered} :
              \A n \in DOMAIN b.probs \ {0} :
                  /\ IsFinite(b.probs[n].probAtLeast)
                  /\ IsFinite(b.probs[n].probUpAtLeast)
                  /\ IsFinite(b.probs[n].probDownAtLeast)
    /\ "stats" \in DOMAIN results =>
          \A lag \in DOMAIN results.stats.autocorrelation :
              results.stats.autocorrelation[lag] # Null =>
                  IsFinite(Val(results.stats.autocorrelation[lag]))
    /\ "supportResistance" \in DOMAIN results =>
          /\ IsFinite(results.supportResistance.ema5)
          /\ \A side \in {results.supportResistance.resistance,
                          results.supportResistance.support} :
                \A k \in DOMAIN side : IsFinite(side[k].strength)

\* the number of pairs of validSet rows with adjacent rowIds whose first row
\* moved in direction a
AdjacentFrom(a) ==
    Cardinality({k \in 1..(Len(dfValid) - 1) :
                    dfValid[k + 1] = dfValid[k] + 1 /\ Val(Row(dfValid[k]).tickMove) * a > 0})

\* the number of validSet rows that fall on a weekday
OnWeekday(day) == Cardinality({k \in DOMAIN dfValid : getDay(Row(dfValid[k]).datetime) = day})

PairsFrom(a) ==
    KeysInOrder({id \in Range(dfValid) :
                    id + 1 \in Range(dfValid) /\ Val(Row(id).tickMove) * a > 0})

\* a reported branch is computed from exactly the pairs starting at the rows
\* from: same and opposite name the fields of continuation and reversal
BranchCounts(branch, from, a, same, opposite) ==
    LET n == Len(from)
        next == Tup([k \in DOMAIN from |-> Val(Row(from[k] + 1).tickMove)])
    IN  /\ branch.nSamples = n
        /\ branch[same] = Rat(Count(next, LAMBDA v : v * a > 0), n)
        /\ branch[opposite] = Rat(Count(next, LAMBDA v : v * a < 0), n)
        /\ branch.probUnchanged = Rat(Count(next, LAMBDA v : v = 0), n)
        /\ branch.avgNextMove = Rat(SumSeq(next), n)
        /\ RAdd(RAdd(branch[same], branch[opposite]), branch.probUnchanged) = ROne

FreshOutcomes ==
    [volWeighted |-> {volumeWeighted(RowsOf(dfRaw))},
     bootstrap |-> {bootstrap(RowsOf(dfValid), bootstrapIterations, DefaultSeed)},
     supportResistance |-> {supportResistance(df)},
     stats |-> {stats(RowsOf(dfRaw), hasBias) : hasBias \in BOOLEAN},
     streaks |-> {streaks(RowsOf(dfValid))},
     rangeProbs |-> {rangeProbabilities(RowsOf(dfValid))},
     expectedValue |-> {expectedValue(RowsOf(dfValid))},
     weekday |-> {weekdayProbs(RowsOf(dfValid))},
     recentComparison |-> {recentComparison(RowsOf(dfValid))}]

\* C13: a new analysis request discards the prior model entirely: once
\* loadAndMerge has been called with a second pair of inputs on an instance that
\* analysed a first pair and the passes have run again, every section present in
\* results was computed from the second inputs; none computed from the first
\* inputs remains when the second data set makes a pass return early.
C13_NoStaleSections ==
    (mode = "reuse" /\ calls >= 1 /\ step = Len(AppOrder)) =>
        \A s \in DOMAIN FreshOutcomes :
            s \in DOMAIN results =>
                \E out \in FreshOutcomes[s] : out.set /\ out.val = results[s]

\* the fields of the rows that the filters and the passes read
CoreOf(rows) ==
    [i \in DOMAIN rows |->
        [f \in {"rowId", "tickMove", "isConsecutive", "isWarmup", "isOutlier"} |-> rows[i][f]]]

\* the values a pass can return on the data sets as loadAndMerge leaves them
\* (the p-value of jStat.ttest is not computed, so hasBias is either)
PassValues(op, args, full) ==
    LET raw == SelectSeq(full, InRaw)
        valid == SelectSeq(full, InValid)
    IN  CASE op = "calculateEmpiricalProbabilities" ->
                {[raw |-> computeProbs(raw, "Real World (Inc. Spikes)"),
                  filtered |-> computeProbs(valid, "Normal Regime")]}
          [] op = "calculateVolumeWeighted" -> {volumeWeighted(raw).val}
          [] op = "calculateBootstrap" -> {bootstrap(valid, args[1], args[2]).val}
          [] op = "calculateConditional" -> {conditional(valid)}
          [] op = "calculateSupportResistance" -> {supportResistance(full).val}
          [] op = "calculateStats" -> {stats(raw, hasBias).val : hasBias \in BOOLEAN}
          [] op = "calculateStreaks" -> {streaks(valid).val}
          [] op = "calculateRangeProbabilities" -> {rangeProbabilities(valid).val}
          [] op = "calculateExpectedValue" -> {expectedValue(valid).val}
          [] op = "calculateWeekdayProbs" -> {weekdayProbs(valid).val}
          [] op = "calculateRecentComparison" -> {recentComparison(valid).val}
          [] op = "getTickDistribution" -> {tickDistribution(valid)}

\* one call of a pass on a loaded instance: it returns what it returns right
\* after loadAndMerge, and leaves the three data sets and the filter fields of
\* every row as they were
PassIndependent ==
    (loaded /\ ret'.op \in Range(AppOrder)) =>
        /\ ret'.val \in PassValues(ret'.op, ret'.args, MarkOutliers(MergedRows(data1, data2)))
        /\ CoreOf(df') = CoreOf(df)
        /\ dfRaw' = dfRaw /\ dfValid' = dfValid

\* C14: after one loadAndMerge the passes are mutually independent: whatever
\* passes ran before it, and in whatever order, each pass returns the same
\* value, and no pass changes the membership of allBars, rawSet or validSet, or
\* the rowId, tickMove, isConsecutive, isWarmup or isOutlier of any row.
C14_PassesIndependent == [][PassIndependent]_vars

\* a pass that reads validSet has returned a result right after
\* calculateSupportResistance wrote tickIdx and the swing marks into the rows
C14_Witness ==
    /\ loaded /\ mode = "free"
    /\ prevRet.op = "calculateSupportResistance"
    /\ ret.op = "calculateExpectedValue" /\ ret.val # EmptyObj
    /\ \A i \in DOMAIN df : "tickIdx" \in DOMAIN df[i]

\* C15: loadAndMerge treats its two input arrays as immutable: after the call
\* each array holds the same bars in the same order as before it, and no bar
\* has been modified (the arrays passed are data1 and data2, but for the other
\* pair handed to an instance that has been through a run).
C15_InputsUnchanged ==
    [][(ret'.op = "loadAndMerge" /\ ~(mode = "reuse" /\ loaded)) =>
            (data1' = data1 /\ data2' = data2)]_vars

\* C16: in the result of loadAndMerge the warm-up region is exactly the rows
\* before the expanding window: the row at index i has isWarmup = true if and
\* only if i < minExpandingWindow - 1, so every row from index
\* minExpandingWindow - 1 on has a median and a MAD and can be classified.
C16_WarmupBeforeWindow ==
    loaded => \A i \in 0..(Len(df) - 1) :
                  Row(i).isWarmup <=> (i < config.minExpandingWindow - 1)

\* the non-null tickMove values of the rows [0, i]
MovesUpTo(i) ==
    LET moves == SelectSeq(SubSeq(df, 1, i + 1), LAMBDA r : r.tickMove # Null)
    IN  Tup([j \in DOMAIN moves |-> Val(moves[j].tickMove)])

\* 1.4826 times the median of the absolute deviations of the values from med
ScaledMAD(values, med) ==
    LET dev == Tup([j \in DOMAIN values |-> Abs(values[j] * med.den - med.num)])
    IN  RMul(RDiv(MiddleOf(SortNum(dev)), RInt(med.den)), Rat(14826, 10000))

\* |tickMove[i] - median_i| > outlierMadThreshold * max(MAD_i, minOutlierTicks),
\* median_i and MAD_i both over the values of MovesUpTo(i)
OutlierByRule(i) ==
    LET values == MovesUpTo(i)
        med == MiddleOf(SortNum(values))
    IN  RLt(RMul(RInt(outlierMadThreshold),
                 RMax(ScaledMAD(values, med), RInt(minOutlierTicks))),
            RAbs(RSub(RInt(Val(Row(i).tickMove)), med)))

\* C17: when loadAndMerge returns, every non-warmup row i with a non-null
\* tickMove has isOutlier iff |tickMove[i] - median_i| > outlierMadThreshold *
\* max(MAD_i, minOutlierTicks), median_i being the median of the tickMove values
\* of rows [0, i] and MAD_i 1.4826 times the median of the absolute deviations
\* of those same values from median_i; the null tickMove of the first row
\* contributes to neither.
C17_OutlierRule ==
    (loaded /\ ret.op = "loadAndMerge") =>
        \A i \in 0..(Len(df) - 1) :
            (~Row(i).isWarmup /\ Row(i).tickMove # Null) =>
                (Row(i).isOutlier <=> OutlierByRule(i))

\* the date keys of the bars of a leg
KeysOf(data) == {getDateKey(data[i].datetime) : i \in DOMAIN data}

\* close and volume are those of a bar of the leg under the date key that no
\* other bar of that date comes after
FromLastOfDate(data, key, close, volume) ==
    \E i \in DOMAIN data :
        /\ getDateKey(data[i].datetime) = key
        /\ \A j \in DOMAIN data :
              getDateKey(data[j].datetime) = key => data[j].datetime <= data[i].datetime
        /\ data[i].close = close /\ data[i].volume = volume

\* C18: for inputs in arbitrary order with repeated dates, loadAndMerge yields
\* exactly one merged row per date key present in both legs and none for any
\* other date; each row's closes and volumes are those of the chronologically
\* last bar of that date in the respective leg, spreadClose = close1 - close2
\* and spreadVolume = min(volume1, volume2); the rows are in ascending time
\* order with rowId = 0, 1, ..., N-1; and isOutlier is false on every row where
\* isWarmup is true.
C18_MergePerDate ==
    (loaded /\ ret.op = "loadAndMerge") =>
        /\ {df[k].dateKey : k \in DOMAIN df} = KeysOf(data1) \cap KeysOf(data2)
        /\ Len(df) = Cardinality(KeysOf(data1) \cap KeysOf(data2))
        /\ \A k \in DOMAIN df :
              /\ FromLastOfDate(data1, df[k].dateKey, df[k].close1, df[k].volume1)
              /\ FromLastOfDate(data2, df[k].dateKey, df[k].close2, df[k].volume2)
              /\ df[k].spreadClose = df[k].close1 - df[k].close2
              /\ df[k].spreadVolume = Min2(df[k].volume1, df[k].volume2)
              /\ df[k].rowId = k - 1
              /\ df[k].isWarmup => ~df[k].isOutlier
              /\ k > 1 => df[k - 1].datetime < df[k].datetime

\* leg 1 was passed with its later bar of 1 January first (the closes tell the
\* positions), leg 2 has a bar of 2 January that leg 1 has not, and the one
\* merged row carries the close of the later bar of leg 1
C18_Witness ==
    /\ loaded /\ ret.op = "loadAndMerge"
    /\ Len(data1) = 2 /\ Len(data2) = 2 /\ Len(df) = 1
    /\ getDateKey(data1[1].datetime) = getDateKey(data1[2].datetime)
    /\ data1[1].datetime < data1[2].datetime
    /\ data1[1].close > data1[2].close
    /\ KeysOf(data2) \ KeysOf(data1) # {}
    /\ df[1].close1 = data1[2].close

\* C19: for every merged row after the first, daysGap is the number of calendar
\* days from the previous row's date key to this row's date key (hence at
\* least 1, whatever the times of day of the two timestamps), and isConsecutive
\* = (daysGap <= maxGapThreshold), maxGapThreshold being maxDaysGap when
\* strictDailyOnly is set and maxDaysGap + 2 otherwise; the first row has
\* isConsecutive = true.
C19_DaysGapByDate ==
    loaded =>
        \A k \in DOMAIN df :
            IF k = 1 THEN df[k].isConsecutive
            ELSE /\ df[k].daysGap = Some(df[k].dateKey - df[k - 1].dateKey)
                 /\ Val(df[k].daysGap) >= 1
                 /\ df[k].isConsecutive = (Val(df[k].daysGap) <= maxGap)

\* the moves of validSet, in its order
ValidMoves == TickMovesOf(RowsOf(dfValid))

SignOf(v) == IF v > 0 THEN 1 ELSE IF v < 0 THEN -1 ELSE 0

\* the positions where a maximal run of moves of the sign begins
RunStarts(moves, sign) ==
    {k \in DOMAIN moves :
        SignOf(moves[k]) = sign /\ (k = 1 \/ SignOf(moves[k - 1]) # sign)}

\* the length of the maximal run that begins at position k
RunLength(moves, k) ==
    Cardinality({j \in k..Len(moves) : \A h \in k..j : SignOf(moves[h]) = SignOf(moves[k])})

\* the entry of calculateStreaks for a direction is that of the maximal runs of
\* moves of its sign
StreaksAreRuns(side, moves, sign) ==
    LET starts == RunStarts(moves, sign)
        ofSign == Count(moves, LAMBDA v : SignOf(v) = sign)
    IN  /\ side.count = Cardinality(starts)
        /\ RMul(side.avgLength, RInt(side.count)) = RInt(ofSign)
        /\ \A k \in starts : RunLength(moves, k) <= side.maxLength
        /\ IF starts = {} THEN side.maxLength = 0
           ELSE \E k \in starts : RunLength(moves, k) = side.maxLength
        /\ side.probTwoPlus = Rat(ofSign - side.count, Len(moves))

\* C20: calculateStreaks, on a validSet of at least 3 rows, records each maximal
\* run of same-signed non-zero moves of validSet, in its order, as one streak
\* (a zero move ends the current streak and starts none, a sign change ends it
\* and starts a new one, the run open at the end is recorded): the up-streak
\* lengths sum to the number of positive moves, the down-streak lengths to the
\* number of negative moves, maxLength is the longest such run, and probTwoPlus
\* of a direction is (moves of that direction - streaks of that direction) /
\* |validSet|.
C20_StreaksAreMaximalRuns ==
    (ret.op = "calculateStreaks" /\ Len(dfValid) >= 3) =>
        /\ ret.val # EmptyObj
        /\ StreaksAreRuns(ret.val.upStreaks, ValidMoves, 1)
        /\ StreaksAreRuns(ret.val.downStreaks, ValidMoves, -1)

\* calculateStreaks has returned on a validSet with a zero move after a move up,
\* a move down right after a move up, a run of two moves up, and a last move
\* that is not zero
C20_Witness ==
    /\ ret.op = "calculateStreaks" /\ Len(dfValid) >= 3
    /\ ret.val.upStreaks.maxLength >= 2
    /\ ret.val.upStreaks.count >= 2
    /\ \E k \in 1..(Len(dfValid) - 1) : ValidMoves[k] > 0 /\ ValidMoves[k + 1] = 0
    /\ \E k \in 1..(Len(dfValid) - 1) : ValidMoves[k] > 0 /\ ValidMoves[k + 1] < 0
    /\ ValidMoves[Len(dfValid)] # 0

\* the positions of validSet where a streak of the sign begins when only rows
\* with successive rowIds continue a streak
RowIdRunStarts(sign) ==
    {k \in DOMAIN dfValid :
        /\ SignOf(ValidMoves[k]) = sign
        /\ (k = 1 \/ SignOf(ValidMoves[k - 1]) # sign \/ dfValid[k] # dfValid[k - 1] + 1)}

\* the entry of calculateStreaks for a direction counts streaks and second or
\* later elements by rowId adjacency
StreaksByRowId(side, sign) ==
    LET ofSign == Count(ValidMoves, LAMBDA v : SignOf(v) = sign)
    IN  /\ side.count = Cardinality(RowIdRunStarts(sign))
        /\ side.probTwoPlus = Rat(ofSign - side.count, Len(dfValid))

\* C21: calculateStreaks counts two validSet rows as successive elements of one
\* streak, and the later one toward probTwoPlus, only if their rowIds differ by
\* exactly 1: a row removed between them (outlier, warm-up or non-consecutive)
\* breaks the streak just as it breaks a conditional transition.
C21_StreaksByRowId ==
    (ret.op = "calculateStreaks" /\ Len(dfValid) >= 3) =>
        /\ StreaksByRowId(ret.val.upStreaks, 1)
        /\ StreaksByRowId(ret.val.downStreaks, -1)

\* the sum of the moves of validSet of the sign, in absolute value
SumOfSign(sign) ==
    SumSeq(Tup([k \in DOMAIN dfValid |->
                  IF SignOf(ValidMoves[k]) = sign THEN Abs(ValidMoves[k]) ELSE 0]))

CountOfSign(sign) == Cardinality({k \in DOMAIN dfValid : SignOf(ValidMoves[k]) = sign})

\* C23: calculateExpectedValue on a non-empty validSet gives profitFactor = (sum
\* of the positive moves) / (sum of |negative moves|) when there is a negative
\* move, +infinity when there is none and there is a positive move, and 0 when
\* there is neither; riskReward = avgGain / avgLoss under the same three cases;
\* and winRate = (number of positive moves) / |validSet|.
C23_ProfitFactorCases ==
    (ret.op = "calculateExpectedValue" /\ Len(dfValid) > 0) =>
        /\ ret.val.profitFactor =
              IF CountOfSign(-1) > 0 THEN Rat(SumOfSign(1), SumOfSign(-1))
              ELSE IF CountOfSign(1) > 0 THEN PosInf ELSE RZero
        /\ ret.val.riskReward =
              IF CountOfSign(-1) > 0
              THEN IF CountOfSign(1) > 0
                   THEN RDiv(Rat(SumOfSign(1), CountOfSign(1)),
                             Rat(SumOfSign(-1), CountOfSign(-1)))
                   ELSE RZero
              ELSE IF CountOfSign(1) > 0 THEN PosInf ELSE RZero
        /\ ret.val.winRate = Rat(CountOfSign(1), Len(dfValid))

\* calculateExpectedValue has returned on a validSet with more moves up than
\* down, so that profitFactor and riskReward differ
C23_Witness ==
    /\ ret.op = "calculateExpectedValue" /\ Len(dfValid) > 0
    /\ CountOfSign(-1) > 0
    /\ CountOfSign(1) > CountOfSign(-1)
    /\ ret.val.profitFactor # ret.val.riskReward
    /\ ret.val.profitFactor # PosInf

\* the positions of the bars of allBars within the last srLookbackDays days
\* before the last bar
RecentBars ==
    {i \in DOMAIN df : df[i].datetime >= df[Len(df)].datetime - srLookbackDays * msPerDay}

\* the positions of the bars the levels are to be built from
LevelBars == IF Cardinality(RecentBars) >= 10 THEN RecentBars ELSE DOMAIN df

\* the levels of both sides in a result of calculateSupportResistance
ReportedLevels(val) == Range(val.resistance) \cup Range(val.support)

\* C24: calculateSupportResistance builds levels only from the bars within the
\* last srLookbackDays days before the last bar when at least 10 such bars
\* exist, and reports lookbackDays = srLookbackDays; with fewer than 10 such
\* bars it uses every bar of allBars and reports lookbackDays = the day span
\* between the first and the last bar (0 for a single bar); the current price
\* is always the last bar's spreadClose.
C24_LookbackWindow ==
    (ret.op = "calculateSupportResistance" /\ Len(df) > 0) =>
        /\ ret.val.lookbackDays =
              IF Cardinality(RecentBars) >= 10 THEN srLookbackDays
              ELSE IF Len(df) > 1
                   THEN MathRound(df[Len(df)].datetime - df[1].datetime, msPerDay)
                   ELSE 0
        /\ ret.val.currentPrice = df[Len(df)].spreadClose
        /\ \A i \in DOMAIN df : ("isSwingHigh" \in DOMAIN df[i]) <=> (i \in LevelBars)
        /\ \A level \in ReportedLevels(ret.val) :
              /\ level.touches =
                    Cardinality({i \in LevelBars :
                                    MathRound(df[i].spreadClose, tickSize) * tickSize
                                        = level.price})
              /\ level.touches > 0

\* calculateSupportResistance has returned a level on a series whose first bars
\* are older than the lookback, some of them at the price of the level
C24_Witness ==
    /\ ret.op = "calculateSupportResistance" /\ Len(df) > 0
    /\ Cardinality(RecentBars) >= 10
    /\ ret.val.lookbackDays = srLookbackDays
    /\ \E level \in ReportedLevels(ret.val) :
          \E i \in DOMAIN df \ RecentBars :
              MathRound(df[i].spreadClose, tickSize) * tickSize = level.price

\* Math.max(...Object.values(volumeByTick), 1) over the bars the levels are
\* built from
MaxLevelVolume ==
    LET volumeAt(t) ==
            SumSeq(Tup([i \in DOMAIN df |->
                          IF i \in LevelBars /\ MathRound(df[i].spreadClose, tickSize) = t
                          THEN df[i].spreadVolume ELSE 0]))
        vols == {volumeAt(MathRound(df[i].spreadClose, tickSize)) : i \in LevelBars} \cup {1}
    IN  CHOOSE v \in vols : \A w \in vols : w <= v

\* ten times the score of a level, as a fraction over 30 * maxVolume:
\* min(#tags, 3) + (3 if Volume and a swing tag) + 3 * volume / maxVolume
\* + 2 * min(touches / 10, 1) + 2 * min(swingCount / 3, 1)
ScoreTenths(level, maxVolume) ==
    LET tags == Range(level.types)
        both == "Volume" \in tags /\ tags \cap {"Swing High", "Swing Low"} # {}
    IN  [num |-> (10 * Min2(Cardinality(tags), 3) + (IF both THEN 30 ELSE 0)) * 30 * maxVolume
                 + 900 * level.volume
                 + 2 * Min2(level.touches, 10) * 30 * maxVolume
                 + 20 * Min2(level.swingCount, 3) * 10 * maxVolume,
         den |-> 30 * maxVolume]

LastCloses ==
    Tup([i \in 1..Min2(Len(df), 5) |-> df[Len(df) - Min2(Len(df), 5) + i].spreadClose])

\* the level is the nearest of a list of levels
NearestOf(levels, level) ==
    /\ level \in Range(levels)
    /\ \A other \in Range(levels) : level.distance <= other.distance

\* C26: in calculateSupportResistance direction is UP iff currentPrice - ema5 >
\* 0.5 * tickSize, DOWN iff currentPrice - ema5 < -0.5 * tickSize, and FLAT
\* otherwise; the target is the nearest reported resistance when UP (null if
\* there is none, never a support), the nearest reported support when DOWN
\* (null if there is none, never a resistance), and when FLAT it is null only
\* if both lists are empty; trendStrength is an integer in [0, 100] and is 0
\* when the last 5 closes are all equal.
C26_DirectionAndTarget ==
    (ret.op = "calculateSupportResistance" /\ Len(df) > 0) =>
        /\ (ret.val.direction = "UP") <=>
              RLt(Rat(tickSize, 2), RSub(RInt(ret.val.currentPrice), ret.val.ema5))
        /\ (ret.val.direction = "DOWN") <=>
              RLt(RSub(RInt(ret.val.currentPrice), ret.val.ema5), Rat(-tickSize, 2))
        /\ ret.val.direction \in {"UP", "DOWN", "FLAT"}
        /\ ret.val.direction = "UP" =>
              IF ret.val.resistance = <<>> THEN ret.val.nextTarget = Null
              ELSE /\ ret.val.nextTarget # Null
                   /\ NearestOf(ret.val.resistance, Val(ret.val.nextTarget))
        /\ ret.val.direction = "DOWN" =>
              IF ret.val.support = <<>> THEN ret.val.nextTarget = Null
              ELSE /\ ret.val.nextTarget # Null
                   /\ NearestOf(ret.val.support, Val(ret.val.nextTarget))
        /\ ret.val.direction = "FLAT" =>
              /\ (ret.val.nextTarget = Null) <=>
                    (ret.val.resistance = <<>> /\ ret.val.support = <<>>)
              /\ ret.val.nextTarget # Null =>
                    Val(ret.val.nextTarget) \in ReportedLevels(ret.val)
        /\ ret.val.trendStrength \in 0..100
        /\ Cardinality(Range(LastCloses)) = 1 => ret.val.trendStrength = 0

\* calculateSupportResistance has returned UP without a target although a
\* support is reported, the trend strength being neither 0 nor 100
C26_Witness ==
    /\ ret.op = "calculateSupportResistance" /\ Len(df) > 0
    /\ ret.val.direction = "UP"
    /\ ret.val.resistance = <<>> /\ ret.val.support # <<>>
    /\ ret.val.nextTarget = Null
    /\ ret.val.trendStrength \in 1..99

\* C27: the ema5 reported by calculateSupportResistance always equals the
\* arithmetic mean of the last min(5, N) spread closes of allBars: the EMA is
\* computed over at most 5 points with an effective period equal to the number
\* of points, so the seed mean consumes every point and the smoothing step is
\* never applied.
C27_EmaIsMean ==
    (ret.op = "calculateSupportResistance" /\ Len(df) > 0) =>
        ret.val.ema5 = Rat(SumSeq(LastCloses), Len(LastCloses))

\* calculateSupportResistance has returned on more than 5 bars whose last 5
\* closes differ, the last close being off their mean
C27_Witness ==
    /\ ret.op = "calculateSupportResistance" /\ Len(df) > 5
    /\ Cardinality(Range(LastCloses)) >= 3
    /\ ret.val.ema5 # RInt(ret.val.currentPrice)
    /\ ret.val.ema5.den # 1

\* the moves and volumes of rawSet, in its order
RawMoves == TickMovesOf(RowsOf(dfRaw))
RawVolumes == Tup([k \in DOMAIN dfRaw |-> Row(dfRaw[k]).spreadVolume])

\* the spreadVolume summed over the rawSet rows whose move is in the set
VolumeOfMoves(moves) ==
    SumSeq(Tup([k \in DOMAIN dfRaw |-> IF RawMoves[k] \in moves THEN RawVolumes[k] ELSE 0]))

MoveRange == {RawMoves[k] : k \in DOMAIN dfRaw}

InUnit(x) == RLeq(RZero, x) /\ RLeq(x, ROne)

\* C28 as amended: calculateVolumeWeighted, for a rawSet with non-negative
\* volumes: if rawSet is empty or its total spreadVolume is 0 the result is
\* empty; otherwise, for each tick level n >= 1, the three values are the
\* spreadVolume summed over the rawSet rows with |tickMove| >= n, tickMove >= n
\* and tickMove <= -n, each divided by the total spreadVolume of rawSet, so each
\* lies in [0, 1], and the up and the down quotient add up to the at-least
\* quotient as fractions (the Numbers returned are these fractions rounded, one
\* by one).
C28_VolumeWeighted ==
    (loaded /\ ret.op = "calculateVolumeWeighted") =>
        IF Len(dfRaw) = 0 \/ VolumeOfMoves(MoveRange) = 0 THEN ret.val = EmptyObj
        ELSE \A n \in LevelSet :
                /\ ret.val[n].volWeightedAtLeast =
                      Rat(VolumeOfMoves({m \in MoveRange : Abs(m) >= n}),
                          VolumeOfMoves(MoveRange))
                /\ ret.val[n].volWeightedUp =
                      Rat(VolumeOfMoves({m \in MoveRange : m >= n}), VolumeOfMoves(MoveRange))
                /\ ret.val[n].volWeightedDown =
                      Rat(VolumeOfMoves({m \in MoveRange : m <= -n}), VolumeOfMoves(MoveRange))
                /\ InUnit(ret.val[n].volWeightedAtLeast)
                /\ InUnit(ret.val[n].volWeightedUp)
                /\ InUnit(ret.val[n].volWeightedDown)
                /\ RAdd(ret.val[n].volWeightedUp, ret.val[n].volWeightedDown)
                      = ret.val[n].volWeightedAtLeast

\* calculateVolumeWeighted has returned on a rawSet with volume on moves up, on
\* moves down and on moves below the third tick level, one row having no
\* volume
C28_Witness ==
    /\ loaded /\ ret.op = "calculateVolumeWeighted" /\ ret.val # EmptyObj
    /\ ret.val[2].volWeightedUp # RZero
    /\ ret.val[2].volWeightedDown # RZero
    /\ ret.val[3].volWeightedAtLeast # ret.val[2].volWeightedAtLeast
    /\ \E k \in DOMAIN dfRaw : RawVolumes[k] = 0

\* the numerator over 2^32 of the value the generator of the returned call
\* gave at draw i (0-based) of iteration iter (0-based) of the level at
\* position li of tickLevels
BootOut(li, iter, i) ==
    DrawOut(ToWord(ret.args[2]), ((li - 1) * ret.args[1] + iter) * Len(dfValid) + i)

\* the move of the row that draw selected, when its index is in validSet
BootMove(li, iter, i) == ValidMoves[DrawIndex(BootOut(li, iter, i), Len(dfValid)) + 1]

\* the number of draws of the iteration whose move is in the set
BootCount(li, iter, moves) ==
    Cardinality({i \in 0..(Len(dfValid) - 1) : BootMove(li, iter, i) \in moves})

MovesOfValid == {ValidMoves[k] : k \in DOMAIN dfValid}

\* mean and both interval bounds are in [0, 1], the lower bound not above the
\* upper
UnitSummary(s) ==
    /\ InUnit(s.mean) /\ InUnit(s.ci[1]) /\ InUnit(s.ci[2])
    /\ RLeq(s.ci[1], s.ci[2])

\* C29 as amended: in calculateBootstrap with a non-empty validSet of size m
\* and nIter >= 1, every value returned by the seeded generator is in [0, 1),
\* so every drawn index floor(r * m) is in 0..m-1; each iteration draws m
\* indices and derives its three counts from that one resample, so in every
\* iteration the at-least count is the up count plus the down count; all means
\* and interval bounds lie in [0, 1], each interval has lower <= upper, and the
\* mean of the at-least fractions is the sum of the means of the up and of the
\* down fractions, as fractions (the Numbers pushed and returned are these
\* fractions rounded, one by one).
C29_BootstrapFractions ==
    (loaded /\ ret.op = "calculateBootstrap" /\ Len(dfValid) > 0) =>
        \A li \in DOMAIN tickLevels :
            /\ \A iter \in 0..(ret.args[1] - 1) :
                  /\ \A i \in 0..(Len(dfValid) - 1) :
                        /\ BootOut(li, iter, i) \in (0..(W16 - 1)) \X (0..(W16 - 1))
                        /\ DrawIndex(BootOut(li, iter, i), Len(dfValid))
                              \in 0..(Len(dfValid) - 1)
                  /\ BootCount(li, iter, {v \in MovesOfValid : Abs(v) >= tickLevels[li]})
                        = BootCount(li, iter, {v \in MovesOfValid : v >= tickLevels[li]})
                          + BootCount(li, iter, {v \in MovesOfValid : v <= -tickLevels[li]})
            /\ UnitSummary(ret.val[tickLevels[li]].abs)
            /\ UnitSummary(ret.val[tickLevels[li]].up)
            /\ UnitSummary(ret.val[tickLevels[li]].down)
            /\ ret.val[tickLevels[li]].abs.mean =
                  RAdd(ret.val[tickLevels[li]].up.mean, ret.val[tickLevels[li]].down.mean)
            /\ ret.val[tickLevels[li]].abs.mean =
                  Rat(SumSeq(Tup([it \in 1..ret.args[1] |->
                                    BootCount(li, it - 1,
                                        {v \in MovesOfValid : Abs(v) >= tickLevels[li]})])),
                      ret.args[1] * Len(dfValid))

\* calculateBootstrap has returned on a validSet with moves up and down whose
\* two resamples of the first level differ, the interval of the at-least
\* fraction having a width
C29_Witness ==
    /\ loaded /\ ret.op = "calculateBootstrap" /\ Len(dfValid) > 0
    /\ ret.val[1].up.mean # RZero /\ ret.val[1].down.mean # RZero
    /\ ret.val[1].abs.ci[1] # ret.val[1].abs.ci[2]
    /\ \E i \in 1..(Len(dfValid) - 1) :
          DrawIndex(BootOut(1, 0, i), Len(dfValid)) # DrawIndex(BootOut(1, 0, 0), Len(dfValid))

\* the messages of what fails in a run of handleFilesSelected on the two files:
\* a file that cannot be read, a text Papa reports an error for, a text
\* without some required column, a text none of whose rows has a close and a
\* datetime
FailuresOfFile(f) ==
    IF ~f.readable THEN {<<"The requested file could not be read">>}
    ELSE IF f.content.errors # <<>>
    THEN {<<"CSV parse error at row ", f.content.errors[1].row, ": ",
            f.content.errors[1].message>>}
    ELSE IF ~(Range(required) \subseteq Range(f.content.fields))
    THEN {<<"Missing required columns: ",
            SelectSeq(required, LAMBDA col : col \notin Range(f.content.fields))>>}
    ELSE IF \A i \in DOMAIN f.content.data :
                f.content.data[i].close = Null \/ f.content.data[i].datetime = Null
    THEN {<<"One or both files contain no valid data">>}
    ELSE {}
RunFailures(files) == FailuresOfFile(files[1]) \cup FailuresOfFile(files[2])

\* the sections loadAndMerge and the passes write whatever the data
SectionsAlwaysWritten ==
    {"nValid", "nRaw", "spreadStats", "empiricalRaw", "empiricalFiltered", "empirical",
     "conditional"}

AppLifecycleStep ==
    /\ (pending # Null /\ pending' = Null) =>
          /\ ~app'.isLoading /\ app'.loadingProgress = 0
          /\ RunFailures(Val(pending)) # {} =>
                /\ app'.results = Null
                /\ app'.error # Null
                /\ Val(app'.error) \in RunFailures(Val(pending))
    /\ (app.results = Null /\ app'.results # Null) =>
          /\ pending # Null /\ pending' = Null
          /\ RunFailures(Val(pending)) = {}
          /\ SectionsAlwaysWritten \subseteq DOMAIN Val(app'.results)
    /\ ~(app'.results # Null /\ app'.error # Null)
    /\ app'.tickDistribution # Null => app'.results # Null

\* C30: in the App, whatever handleFilesSelected and handleReset invocations its
\* controls allow, every handleFilesSelected run ends with isLoading = false and
\* loadingProgress = 0, whether it completes or raises; results becomes
\* non-null only at the end of a run in which nothing failed and loadAndMerge
\* and the passes have written their sections; when something fails (a file
\* that cannot be read, a CSV parse error, missing columns, a file with no
\* valid rows) results stays null and error holds that failure's message;
\* results and error are never both non-null, and tickDistribution is non-null
\* only while results is non-null.
C30_AppLifecycle == [][AppLifecycleStep]_vars

\* a run has failed on a file without valid rows, right after a run that was
\* started from the upload form: error holds the message and nothing is loading
C30_Witness ==
    /\ ret.op = "filesRead" /\ prevRet.op = "handleFilesSelected"
    /\ pending = Null
    /\ app.error = Some(<<"One or both files contain no valid data">>)
    /\ app.results = Null /\ app.tickDistribution = Null
    /\ ~app.isLoading /\ app.loadingProgress = 0

(***************************************************************************)
(* IEEE 754 binary64: the Number arithmetic of wilsonCI, bit for bit       *)
(***************************************************************************)
\* A finite double is [s, m, e], the number s * m * 2^e with s its sign and
\* 2^52 <= m < 2^53, or zero.  Exponents stay far from the limits of the
\* format in wilsonCI, so neither subnormals nor overflow are modelled.
MantissaBits == 53
FZero == [s |-> 0, m |-> <<>>, e |-> 0]

\* s * r * 2^e for a rounded mantissa r, which rounding up may have taken
\* to 2^53
Carried(s, r, e) ==
    IF BitLen(r) > MantissaBits THEN [s |-> s, m |-> BShr(r, 1), e |-> e + 1]
    ELSE [s |-> s, m |-> r, e |-> e]

\* q + (rem + f) / (2 * half) rounded to the nearest integer, ties to even
Nearest(q, rem, half, sticky) ==
    IF (IF rem = half THEN sticky \/ q[1] % 2 = 1 ELSE ~BLeq(rem, half))
    THEN BAdd(q, <<1>>, 0)
    ELSE q

\* Round for an M of shift > 0 bits too many, q being M without them
Shifted(s, M, e, sticky, shift, q) ==
    Carried(s, Nearest(q, BSub(M, BShl(q, shift)), BShl(<<1>>, shift - 1), sticky),
            e + shift)

\* Round for an M of MantissaBits + shift bits
Sized(s, M, e, sticky, shift) ==
    IF shift <= 0 THEN [s |-> s, m |-> BShl(M, -shift), e |-> e + shift]
    ELSE Shifted(s, M, e, sticky, shift, BShr(M, shift))

\* (M + f) * 2^e rounded to the nearest double, ties to even, with sign s;
\* M > 0 is a natural number, 0 <= f < 1, and f > 0 iff sticky (an inexact M
\* carries at least two bits more than a mantissa)
Round(s, M, e, sticky) == Sized(s, M, e, sticky, BitLen(M) - MantissaBits)

\* the double of a small integer n >= 0
FNum(n) ==
    IF n = 0 THEN FZero
    ELSE Round(1, BNat(n), 0, FALSE)

FNeg(a) == [s |-> -a.s, m |-> a.m, e |-> a.e]

\* a * b
FMul(a, b) ==
    IF a.s = 0 \/ b.s = 0 THEN FZero
    ELSE Round(a.s * b.s, BMul(a.m, b.m), a.e + b.e, FALSE)

\* sa * x * 2^e + sb * y * 2^e
Aligned64(sa, x, sb, y, e) ==
    IF sa = sb THEN Round(sa, BAdd(x, y, 0), e, FALSE)
    ELSE IF x = y THEN FZero
    ELSE IF BLeq(y, x) THEN Round(sa, BSub(x, y), e, FALSE)
    ELSE Round(sb, BSub(y, x), e, FALSE)

\* a + b
FAdd(a, b) ==
    IF a.s = 0 THEN b
    ELSE IF b.s = 0 THEN a
    ELSE Aligned64(a.s, BShl(a.m, a.e - Min2(a.e, b.e)),
                   b.s, BShl(b.m, b.e - Min2(a.e, b.e)), Min2(a.e, b.e))

\* a - b
FSub(a, b) == FAdd(a, FNeg(b))

\* a <= b
FLeq(a, b) == FSub(b, a).s >= 0

\* Math.max(a, b) and Math.min(a, b)
FMax(a, b) == IF FLeq(a, b) THEN b ELSE a
FMin(a, b) == IF FLeq(a, b) THEN a ELSE b

RECURSIVE DivDigit(_, _, _, _)
\* the largest digit x with d * x <= r, for r < d * Limb: c holds the binary
\* digits of x found so far, k are left to find, two at a time
DivDigit(r, d, c, k) ==
    IF k = 0 THEN c
    ELSE LET fits(x) == BLeq(BScale(d, x, 0), r)
             next(j) == c + j * 2 ^ (k - 2)
             j == CHOOSE i \in 0..3 : /\ i = 0 \/ fits(next(i))
                                      /\ i = 3 \/ ~fits(next(i + 1))
         IN  IF j = 0 THEN DivDigit(r, d, c, k - 2) ELSE DivDigit(r, d, next(j), k - 2)

RECURSIVE LongDiv(_, _, _, _)
RECURSIVE LongDivDigit(_, _, _, _, _)
\* n more digits of the long division by d, r < d being the remainder so far
\* and q the digits so far: the digits and the last remainder
LongDiv(r, d, q, n) ==
    IF n = 0 THEN [q |-> q, r |-> r]
    ELSE IF r = <<>> THEN [q |-> Tup([i \in 1..n |-> 0]) \o q, r |-> r]
    ELSE LongDivDigit(<<0>> \o r, d, q, n, DivDigit(<<0>> \o r, d, 0, LimbBits))

\* the long division whose next digit is x, r being the remainder with the
\* next digit of the dividend
LongDivDigit(r, d, q, n, x) ==
    IF x = 0 THEN LongDiv(r, d, <<0>> \o q, n - 1)
    ELSE LongDiv(BSub(r, BScale(d, x, 0)), d, <<x>> \o q, n - 1)

\* sign * (q + f) * 2^e rounded, d holding the digits of q after the first,
\* q0, and the remainder
Quotient(sign, q0, d, e) == Round(sign, BNorm(d.q \o <<q0>>), e, d.r # <<>>)

\* a / b, for b # 0: the quotient of the mantissas to four more digits, rounded
FDiv(a, b) ==
    IF a.s = 0 THEN FZero
    ELSE IF BLeq(b.m, a.m)
         THEN Quotient(a.s * b.s, 1, LongDiv(BSub(a.m, b.m), b.m, <<>>, 4),
                       a.e - b.e - 4 * LimbBits)
         ELSE Quotient(a.s * b.s, 0, LongDiv(a.m, b.m, <<>>, 4),
                       a.e - b.e - 4 * LimbBits)

RECURSIVE SqrtDigit(_, _, _, _, _)
\* the largest digit x with r'^2 <= M, r' being r with x as digit number pos:
\* c holds the binary digits of x found so far, k are left to find, two at
\* a time
SqrtDigit(M, r, pos, c, k) ==
    IF k = 0 THEN c
    ELSE LET fits(x) == LET cand == [r EXCEPT ![pos] = x] IN BLeq(BMul(cand, cand), M)
             next(j) == c + j * 2 ^ (k - 2)
             j == CHOOSE i \in 0..3 : /\ i = 0 \/ fits(next(i))
                                      /\ i = 3 \/ ~fits(next(i + 1))
         IN  IF j = 0 THEN SqrtDigit(M, r, pos, c, k - 2)
             ELSE SqrtDigit(M, r, pos, next(j), k - 2)

RECURSIVE SqrtDigits(_, _, _)
RECURSIVE SqrtDigitsWith(_, _, _, _)
\* the integer square root of M, digit by digit from digit number pos down,
\* r holding the digits found
SqrtDigits(M, r, pos) ==
    IF pos = 0 THEN r
    ELSE SqrtDigitsWith(M, r, pos, SqrtDigit(M, r, pos, 0, LimbBits))

\* the digits of the root whose digit number pos is x
SqrtDigitsWith(M, r, pos, x) ==
    IF x = 0 THEN SqrtDigits(M, r, pos - 1)
    ELSE SqrtDigits(M, [r EXCEPT ![pos] = x], pos - 1)

\* (root + f) * 2^e rounded, root being the integer square root of M
Root(M, root, e) == Round(1, root, e, BMul(root, root) # M)

\* the square root of M * 2^(2 * e) rounded
RootOf(M, e) == Root(M, SqrtDigits(M, <<0, 0, 0, 0>>, 4), e)

\* the square root of a.m * 2^k * 2^(a.e - k) rounded, a.e - k being even
RootShifted(a, k) == RootOf(BShl(a.m, k), (a.e - k) \div 2)

\* Math.sqrt(a), for a >= 0: the root of the mantissa to 54 or 55 bits, rounded
FSqrt(a) ==
    IF a.s = 0 THEN FZero
    ELSE RootShifted(a, MantissaBits + 2 + ((a.e - MantissaBits) % 2))

\* the interval wilsonCI returns for a center and a margin
wilsonReturn(center, margin) ==
    <<FMax(FZero, FSub(center, margin)), FMin(FNum(1), FAdd(center, margin))>>

\* the interval for the estimate p, n being the double of trials and zz
\* that of z * z
wilsonFrom(p, n, z, zz, denom) ==
    wilsonReturn(FDiv(FAdd(p, FDiv(zz, FMul(FNum(2), n))), denom),
                 FMul(FDiv(z, denom),
                      FSqrt(FAdd(FDiv(FMul(p, FSub(FNum(1), p)), n),
                                 FDiv(zz, FMul(FMul(FNum(4), n), n))))))

\* wilsonCI(successes, trials) on doubles, z being the double that
\* jStat.normal.inv(1 - (1 - 0.95) / 2, 0, 1) returned
wilsonCIBinary64(successes, trials, z) ==
    IF trials = 0 THEN <<FZero, FZero>>
    ELSE wilsonFrom(FDiv(FNum(successes), FNum(trials)), FNum(trials), z, FMul(z, z),
                    FAdd(FNum(1), FDiv(FMul(z, z), FNum(trials))))

(***************************************************************************)
(* wilsonCI on its own: every pair 0 <= successes <= trials <= MaxTrials    *)
(***************************************************************************)
MaxTrials == 12

\* The 0.975 quantile of the standard normal is 1.95996398454005423...; the
\* nearest double is 0x1.f5c0331eeff84p+0.  jStat computes the quantile by
\* iteration on its erfc, so the double it returns is any of those within
\* ZUlps units in the last place of the nearest one.
ZUlps == 8
zNearest == [s |-> 1, m |-> <<16260, 1979, 51, 2007>>, e |-> -52]
ZValues ==
    {[s |-> 1, e |-> zNearest.e,
      m |-> IF d >= 0 THEN BAdd(zNearest.m, <<d>>, 0) ELSE BSub(zNearest.m, <<-d>>)] :
        d \in (-ZUlps)..ZUlps}

InitWilson ==
    /\ \E trials \in 0..MaxTrials : \E successes \in 0..trials : \E z \in ZValues :
          wilsonArgs = [successes |-> successes, trials |-> trials, z |-> z]
    /\ config = [minExpandingWindow |-> minExpandingWindow]
    /\ data1 = <<>> /\ data2 = <<>> /\ loaded = FALSE
    /\ df = <<>> /\ dfRaw = <<>> /\ dfValid = <<>>
    /\ results = [x \in {} |-> 0]
    /\ ret = [op |-> "none", args |-> <<>>, val |-> Undefined]
    /\ prevRet = [op |-> "none", args |-> <<>>, val |-> Undefined]
    /\ rng = Null /\ mode = "wilson" /\ step = 0 /\ calls = 0
    /\ app = useState /\ pending = Null

CallWilsonCI ==
    /\ ret.op = "none"
    /\ ret' = [op |-> "wilsonCI", args |-> <<wilsonArgs.successes, wilsonArgs.trials>>,
               val |-> wilsonCIBinary64(wilsonArgs.successes, wilsonArgs.trials,
                                        wilsonArgs.z)]
    /\ prevRet' = ret
    /\ UNCHANGED <<config, data1, data2, loaded, df, dfRaw, dfValid, results, rng, mode,
                   step, calls, wilsonArgs, app, pending>>

NextWilson == CallWilsonCI

SpecWilson == InitWilson /\ [][NextWilson]_vars

\* [lo, hi] is as the contract of wilsonCI(successes, trials) requires, the
\* estimate being the double successes / trials
WilsonContract(successes, trials, lo, hi) ==
    IF trials = 0 THEN lo = FZero /\ hi = FZero
    ELSE Let(FDiv(FNum(successes), FNum(trials)), LAMBDA p :
             /\ FLeq(FZero, lo)
             /\ FLeq(lo, p)
             /\ FLeq(p, hi)
             /\ FLeq(hi, FNum(1)))

\* C2: for 0 <= successes <= trials and trials >= 1 the interval wilsonCI
\* returns satisfies 0 <= lo <= successes/trials <= hi <= 1, and for
\* trials = 0 it is [0, 0].
C2_WilsonContainsEstimate ==
    ret.op = "wilsonCI" =>
        WilsonContract(ret.args[1], ret.args[2], ret.val[1], ret.val[2])

\* the Number a / b the code holds for a quotient of two integers below 2^53:
\* one division, rounded to the nearest double
DoubleOf(r) == FDiv(FNum(r.num), FNum(r.den))

\* results.empiricalFiltered is that of the validSet at hand: App calls
\* calculateEmpiricalProbabilities after every load, a free caller has just
\* called it
EmpiricalAtHand ==
    /\ mode # "free" \/ prevRet.op = "calculateEmpiricalProbabilities"
    /\ "empiricalFiltered" \in DOMAIN results

\* C22: for a non-empty validSet and every tick level n,
\* calculateRangeProbabilities gives probWithin(n) + probBreakout(n) = 1 (of
\* the fractions, and of the Numbers returned for them) with
\* probWithin = P(|tickMove| < n), and probBreakout(n) equals the probAtLeast(n)
\* of the normal regime (validSet) reported by calculateEmpiricalProbabilities
\* for the same n.
C22_WithinPlusBreakout ==
    (ret.op = "calculateRangeProbabilities" /\ Len(dfValid) > 0) =>
        \A n \in LevelSet :
            /\ RAdd(ret.val[n].probWithin, ret.val[n].probBreakout) = ROne
            /\ FAdd(DoubleOf(ret.val[n].probWithin), DoubleOf(ret.val[n].probBreakout))
                  = FNum(1)
            /\ ret.val[n].probWithin =
                  Rat(Cardinality({k \in DOMAIN dfValid : Abs(ValidMoves[k]) < n}),
                      Len(dfValid))
            /\ EmpiricalAtHand =>
                  ret.val[n].probBreakout = results.empiricalFiltered.probs[n].probAtLeast

\* calculateRangeProbabilities has returned after calculateEmpiricalProbabilities
\* on a validSet with moves on both sides of the second tick level
C22_Witness ==
    /\ ret.op = "calculateRangeProbabilities" /\ Len(dfValid) > 0
    /\ EmpiricalAtHand
    /\ ret.val[2].probWithin # RZero
    /\ ret.val[2].probBreakout # RZero
    /\ ret.val[1].probWithin # ret.val[2].probWithin

\* C28 as claimed: calculateVolumeWeighted returns an empty result for an
\* empty rawSet or a total spreadVolume of 0, and otherwise, at every tick
\* level, the three volume sums divided by the total, each in [0, 1], with
\* volWeightedUp + volWeightedDown = volWeightedAtLeast for the values
\* returned.
C28_AsClaimed ==
    /\ C28_VolumeWeighted
    /\ (loaded /\ ret.op = "calculateVolumeWeighted" /\ ret.val # EmptyObj) =>
          \A n \in LevelSet :
              /\ FAdd(DoubleOf(ret.val[n].volWeightedUp),
                      DoubleOf(ret.val[n].volWeightedDown))
                    = DoubleOf(ret.val[n].volWeightedAtLeast)
              /\ FLeq(FZero, DoubleOf(ret.val[n].volWeightedAtLeast))
              /\ FLeq(DoubleOf(ret.val[n].volWeightedAtLeast), FNum(1))

\* the fraction count / m of one iteration, as the Number pushed
BootFraction(li, iter, moves) == DoubleOf(Rat(BootCount(li, iter, moves), Len(dfValid)))

\* C29 as claimed: calculateBootstrap on a non-empty validSet draws indices in
\* 0..m-1, m per iteration, its means and interval bounds lie in [0, 1] with
\* lower <= upper, and in every iteration the at-least fraction pushed equals
\* the up fraction plus the down fraction.
C29_AsClaimed ==
    /\ C29_BootstrapFractions
    /\ (loaded /\ ret.op = "calculateBootstrap" /\ Len(dfValid) > 0) =>
          \A li \in DOMAIN tickLevels : \A iter \in 0..(ret.args[1] - 1) :
              FAdd(BootFraction(li, iter, {v \in MovesOfValid : v >= tickLevels[li]}),
                   BootFraction(li, iter, {v \in MovesOfValid : v <= -tickLevels[li]}))
                  = BootFraction(li, iter, {v \in MovesOfValid : Abs(v) >= tickLevels[li]})

====
